---- MODULE Spec2Model ----
(***************************************************************************)
(* Model of bot.py: the TTL cache (get_df_async, CACHE.clear), the fetch   *)
(* scheduler (semaphore, pacing gate, one retry after a 429) and the text  *)
(* normalizers.                                                            *)
(*                                                                         *)
(* Time is counted in whole seconds.  asyncio.sleep(d) and time.sleep(d)   *)
(* guarantee only "at least d": a sleeper may resume at any instant at or  *)
(* after its wake-up time, which also covers the random.uniform(0, 0.4)    *)
(* jitter added to the pacing sleep.                                       *)
(*                                                                         *)
(* The rows a worksheet delivers are identified by the upstream call that  *)
(* read them: region and attempt number.                                   *)
(***************************************************************************)
EXTENDS Integers, Sequences, FiniteSets, TLC

\* ---------------------------------------------------------------- bounds
NumRegions == 5
MaxCalls == 2
MaxClears == 1
MaxWords == 3
MaxCols == 2
MaxRows == 2
MaxObjects == 5
MaxPhrases == 2
MaxEvents == 7
MaxTicks == 3

\* ------------------------------------------------------ program constants
API_DELAY == 2
PARALLEL_LIMIT == 4
CACHE_TTL == 1800
COOLDOWN == 10
DATETIME_MIN == -1000000

Regions == 1..NumRegions
ALL == 0
Keys == Regions \cup {ALL}
Calls == 1..MaxCalls
\* the instants the clock passes through: over a TTL, around the pacing
\* delay, within the first seconds of a fan-out
Times == {0, COOLDOWN, CACHE_TTL}
PacingTimes == {0, 1, API_DELAY, COOLDOWN}
FanTimes == {0, API_DELAY}
Outcomes == {"ok", "429", "err"}

VARIABLES
    now,            \* datetime.now()
    REGION_SHEETS,  \* regions whose sheet id is configured
    CACHE,          \* key -> <<>> (absent) or <<[df, exp]>>
    LAST_API_CALL,
    sem,            \* value of the asyncio.Semaphore
    call,           \* get_df_async invocations
    task,           \* load_single_region_async invocations, per call and region
    lastUp,         \* instant at which the latest upstream call was let go
    clears,         \* number of CACHE.clear() so far
    todo,           \* key -> calls of get_df_async the users may still make
    env,            \* the instants the clock passes through, the clear commands sent
    status_cell,    \* a cell of the status column of a worksheet
    status_normalized,  \* its cell in column status_normalized, <<>> before it is computed
    df_columns,     \* df.columns of a frame given to find_column
    alias_list,     \* the alias list given to find_column
    found,          \* {} before find_column returns, then the set of what it returned
    tracker_cell,   \* a cell of the tracker column of a worksheet
    has_tracker,    \* {} before normalize_tracker_flag returns, then the set of what it returned
    values,         \* {} or the set of the one worksheet read: its region, headers and rows
    frame,          \* {} or the set of the one frame at hand
    views,          \* {} or the set of what the views show for the frame
    heap,           \* the frame objects: the rows of each, and those handed to callers
    type_cell,      \* a text given to normalize_tech_type
    type_found,     \* {} before normalize_tech_type returns, then the set of what it returned
    users,          \* RateLimitMiddleware._users: user id -> the instants recorded
    monotonic,      \* time.monotonic(), in units of RATE_UNIT
    handled         \* the events the middleware has seen: user, instant, passed on or not

schedVars == <<now, REGION_SHEETS, CACHE, LAST_API_CALL, sem, call, task,
               lastUp, clears, todo, env>>
statusVars == <<status_cell, status_normalized>>
colVars == <<df_columns, alias_list, found>>
trackerVars == <<tracker_cell, has_tracker>>
pipeVars == <<values, frame, views, heap>>
typeVars == <<type_cell, type_found>>
rateVars == <<users, monotonic, handled>>
textVars == <<statusVars, colVars, trackerVars, pipeVars, typeVars, rateVars>>
vars == <<schedVars, textVars>>

\* ------------------------------------------------------------------ text
\* A text is the sequence of the Unicode code points of its characters.

\* str.isspace on the characters of the texts considered
IsSpace(ch) == ch \in {9, 10, 13, 32, 160}

\* \w of re (Unicode): digits, underscore, Latin and Cyrillic letters
IsWord(ch) ==
    \/ ch \in 48..57 \/ ch = 95
    \/ ch \in 65..90 \/ ch \in 97..122
    \/ ch \in 1024..1153 \/ ch \in 1162..1279

\* a lower() that knows the Latin capitals only
LowerAscii(ch) == IF ch \in 65..90 THEN ch + 32 ELSE ch

\* str.lower on one character: Latin, Cyrillic and extended Cyrillic capitals
Lower(ch) ==
    IF ch \in 65..90 THEN ch + 32
    ELSE IF ch \in 1040..1071 THEN ch + 32
    ELSE IF ch \in 1024..1039 THEN ch + 80
    ELSE IF ch \in 1162..1215 /\ ch % 2 = 0 THEN ch + 1
    ELSE ch

\* the apostrophe-like code points of APOSTS
APOSTS == {39, 96, 180, 697, 699, 700, 701, 8217, 8242, 42892}

Map(s, F(_)) == [i \in 1..Len(s) |-> F(s[i])]

\* unicodedata.normalize("NFKC", .) on one character of the texts considered:
\* the no-break space becomes a space, the acute accent a space and a
\* combining acute, U+0149 a modifier apostrophe and n; letters, digits,
\* marks and the icons stay as they are
NfkcChar(ch) ==
    IF ch = 160 THEN <<32>>
    ELSE IF ch = 180 THEN <<32, 769>>
    ELSE IF ch = 329 THEN <<700, 110>>
    ELSE <<ch>>

RECURSIVE Nfkc(_)
Nfkc(s) == IF s = <<>> THEN <<>> ELSE NfkcChar(s[1]) \o Nfkc(Tail(s))

\* s.replace(a, "'") for a in APOSTS, then s.replace("\u00A0", " ")
Unapost(ch) == IF ch \in APOSTS THEN 39 ELSE IF ch = 160 THEN 32 ELSE ch

\* _prenorm
prenorm(s) == Map(Nfkc(s), Unapost)

RECURSIVE LStrip(_)
LStrip(s) == IF s # <<>> /\ IsSpace(s[1]) THEN LStrip(Tail(s)) ELSE s

RECURSIVE RStrip(_)
RStrip(s) ==
    IF s # <<>> /\ IsSpace(s[Len(s)]) THEN RStrip(SubSeq(s, 1, Len(s) - 1)) ELSE s

\* str.strip
Strip(s) == RStrip(LStrip(s))

\* str.lower
LowerStr(s) == Map(s, Lower)

NotWordToSpace(ch) == IF IsWord(ch) \/ IsSpace(ch) THEN ch ELSE 32

\* re.sub(r"[^\w\s]", " ", s)
SubPunct(s) == Map(s, NotWordToSpace)

RECURSIVE Collapse(_)
\* re.sub(r"\s+", " ", s)
Collapse(s) ==
    IF s = <<>> THEN <<>>
    ELSE IF IsSpace(s[1])
         THEN <<32>> \o Collapse(LStrip(s))
         ELSE <<s[1]>> \o Collapse(Tail(s))

\* w occurs in s at position i
At(s, w, i) == i + Len(w) - 1 <= Len(s) /\ SubSeq(s, i, i + Len(w) - 1) = w

\* Python's "w in s"
Contains(s, w) == \E i \in 1..(Len(s) + 1) : At(s, w, i)

\* any(tok in s for tok in toks)
ContainsAny(s, toks) == \E k \in 1..Len(toks) : Contains(s, toks[k])

\* w occurs in s between two \b: at position i, as a run of word characters
\* that starts and ends a word
AtWord(s, w, i) ==
    /\ At(s, w, i)
    /\ i = 1 \/ ~IsWord(s[i - 1])
    /\ i + Len(w) - 1 = Len(s) \/ ~IsWord(s[i + Len(w)])

\* w occurs in s after a \b
AfterBoundary(s, w) == \E i \in 1..Len(s) : At(s, w, i) /\ (i = 1 \/ ~IsWord(s[i - 1]))

W_v == <<1074>>  \* в
W_raboch == <<1088, 1072, 1073, 1086, 1095>>  \* рабоч
W_em == <<1077, 1084>>  \* ем
W_ee == <<1077, 1077>>  \* ее
W_sostoyani == <<1089, 1086, 1089, 1090, 1086, 1103, 1085, 1080>>  \* состояни
W_i == <<1080>>  \* и
W_e == <<1077>>  \* е
W_remont == <<1088, 1077, 1084, 1086, 1085, 1090>>  \* ремонт
W_remontn == <<1088, 1077, 1084, 1086, 1085, 1090, 1085>>  \* ремонтн
W_ispraven == <<1080, 1089, 1087, 1088, 1072, 1074, 1077, 1085>>  \* исправен
W_ne == <<1085, 1077>>  \* не

\* re.search(r"\bв\s*рабоч(ем|ее)?\s*состояни(и|е)\b", s), s holding single
\* spaces only
WorkingConditionRe(s) ==
    \E sp1 \in {<<>>, <<32>>}, mid \in {<<>>, W_em, W_ee}, sp2 \in {<<>>, <<32>>},
       end \in {W_i, W_e} :
        \E i \in 1..Len(s) :
            AtWord(s, W_v \o sp1 \o W_raboch \o mid \o sp2 \o W_sostoyani \o end, i)

\* re.search(r"\bв\s*ремонтн", s)
RepairRe(s) == \E sp \in {<<>>, <<32>>} : AfterBoundary(s, W_v \o sp \o W_remontn)

\* normalize_status: tokens of the first icon test
IconOperational ==
    << <<9989>>,                       \* ✅
       <<128994>>,                     \* 🟢
       <<103, 114, 101, 101, 110>>,    \* green
       <<111, 107>> >>                 \* ok

\* normalize_status: tokens of the second icon test
IconNonOperational ==
    << <<9940>>,      \* ⛔
       <<128721>>,    \* 🛑
       <<128308>>,    \* 🔴
       <<10060>> >>   \* ❌

\* normalize_status: tokens of the third icon test
IconNeedsRepair ==
    << <<128736>>,    \* 🛠
       <<128993>>,    \* 🟡
       <<9888>> >>    \* ⚠

\* normalize_status: substrings of the "works" test
OperationalWords ==
    << <<1103, 1088, 1086, 1179, 1083, 1080>>,                                                    \* яроқли
       <<1103, 1088, 1086, 1082, 1083, 1080>>,                                                    \* ярокли
       <<1080, 1096, 1083, 1072, 1081, 1076, 1080>>,                                              \* ишлайди
       <<1080, 1096, 1083, 1072, 1084, 1086, 1179, 1076, 1072>>,                                  \* ишламоқда
       <<1080, 1096, 1083, 1072, 1073, 32, 1090, 1091, 1088, 1080, 1073, 1076, 1080>>,            \* ишлаб турибди
       <<1080, 1096, 1075, 1072, 32, 1103, 1088, 1086, 1179, 1083, 1080>>,                        \* ишга яроқли
       <<1080, 1096, 1075, 1072, 32, 1103, 1088, 1086, 1082, 1083, 1080>>,                        \* ишга ярокли
       <<1101, 1082, 1089, 1087, 1083, 1091, 1072, 1090, 1072, 1094, 1080, 1103, 1076, 1072>>,    \* эксплуатацияда
       <<1092, 1086, 1081, 1076, 1072, 1083, 1072, 1085, 1080, 1096, 1076, 1072>>,                \* фойдаланишда
       <<1074, 32, 1101, 1082, 1089, 1087, 1083, 1091, 1072, 1090, 1072, 1094, 1080, 1080>>,      \* в эксплуатации
       <<111, 112, 101, 114, 97, 116, 105, 111, 110, 97, 108>>,                                   \* operational
       <<105, 110, 32, 115, 101, 114, 118, 105, 99, 101>>,                                        \* in service
       <<119, 111, 114, 107, 105, 110, 103>>,                                                     \* working
       <<1080, 1089, 1087, 1088, 1072, 1074, 1077, 1085>>,                                        \* исправен
       <<1080, 1089, 1087, 1088, 1072, 1074, 1085, 1072>>,                                        \* исправна
       <<1080, 1089, 1087, 1088, 1072, 1074, 1085, 1086>>,                                        \* исправно
       <<1080, 1089, 1087, 1088, 1072, 1074, 1085, 1099, 1081>>,                                  \* исправный
       <<1088, 1072, 1073, 1086, 1090, 1072, 1077, 1090>>,                                        \* работает
       <<114, 101, 97, 100, 121>>,                                                                \* ready
       <<103, 111, 111, 100>>,                                                                    \* good
       <<97, 99, 116, 105, 118, 101>> >>                                                          \* active

\* normalize_status: substrings of the "does not work" test
NonOperationalWords ==
    << <<1103, 1088, 1086, 1179, 1089, 1080, 1079>>,                                                                              \* яроқсиз
       <<1103, 1088, 1086, 1082, 1089, 1080, 1079>>,                                                                              \* яроксиз
       <<1080, 1096, 1083, 1072, 1084, 1072, 1103, 1087, 1090, 1080>>,                                                            \* ишламаяпти
       <<1080, 1096, 1083, 1072, 1084, 1072, 1081, 1076, 1080>>,                                                                  \* ишламайди
       <<1080, 1096, 1083, 1072, 1084, 1072, 1075, 1072, 1085>>,                                                                  \* ишламаган
       <<1080, 1096, 1076, 1072, 1085, 32, 1095, 1080, 1179, 1179, 1072, 1085>>,                                                  \* ишдан чиққан
       <<1080, 1096, 1076, 1072, 1085, 32, 1095, 1080, 1082, 1082, 1072, 1085>>,                                                  \* ишдан чиккан
       <<1090, 1080, 1079, 1080, 1084, 1076, 1072, 1085, 32, 1090, 1072, 1096, 1179, 1072, 1088, 1080>>,                          \* тизимдан ташқари
       <<1085, 1077, 32, 1088, 1072, 1073, 1086, 1090, 1072, 1077, 1090>>,                                                        \* не работает
       <<1074, 32, 1085, 1077, 32, 1080, 1089, 1087, 1088, 1072, 1074, 1085>>,                                                    \* в не исправн
       <<1074, 1085, 1077, 32, 1080, 1089, 1087, 1088, 1072, 1074, 1085>>,                                                        \* вне исправн
       <<98, 114, 111, 107, 101, 110>>,                                                                                           \* broken
       <<105, 110, 97, 99, 116, 105, 118, 101>>,                                                                                  \* inactive
       <<111, 117, 116, 32, 111, 102, 32, 111, 114, 100, 101, 114>>,                                                              \* out of order
       <<1179, 1080, 1089, 1084, 1072, 1085, 32, 1080, 1096, 1083, 1072, 1084, 1072, 1081, 1076, 1080>>,                          \* қисман ишламайди
       <<1095, 1072, 1089, 1090, 1080, 1095, 1085, 1086, 32, 1085, 1077, 32, 1088, 1072, 1073, 1086, 1090, 1072, 1077, 1090>>,    \* частично не работает
       <<1085, 1077, 1080, 1089, 1087, 1088, 1072, 1074>> >>                                                                      \* неисправ

\* normalize_status: substrings of the "repair" test
RepairWords ==
    << <<1090, 1072, 1098, 1084, 1080, 1088, 1090, 1072, 1083, 1072, 1073>>,                \* таъмирталаб
       <<1090, 1072, 1084, 1080, 1088, 1090, 1072, 1083, 1072, 1073>>,                      \* тамирталаб
       <<1090, 1072, 1098, 1084, 1080, 1088, 1076, 1072>>,                                  \* таъмирда
       <<1088, 1077, 1084, 1086, 1085, 1090, 1076, 1072>>,                                  \* ремонтда
       <<1088, 1077, 1084, 1086, 1085, 1090>>,                                              \* ремонт
       <<1088, 1077, 1084, 1086, 1085, 1090, 1080, 1088, 1091, 1077, 1090, 1089, 1103>>,    \* ремонтируется
       <<1085, 1072, 32, 1088, 1077, 1084, 1086, 1085, 1090, 1077>>,                        \* на ремонте
       <<1086, 1073, 1089, 1083, 1091, 1078, 1080, 1074, 1072, 1085>>,                      \* обслуживан
       <<1090, 1077, 1093, 1086, 1073, 1089, 1083, 1091, 1078>>,                            \* техобслуж
       <<109, 97, 105, 110, 116, 101, 110, 97, 110, 99, 101>>,                              \* maintenance
       <<117, 110, 100, 101, 114, 32, 114, 101, 112, 97, 105, 114>>,                        \* under repair
       <<114, 101, 112, 97, 105, 114>> >>                                                   \* repair

\* the four canonical states
Operational == <<1071, 1088, 1086, 1082, 1083, 1080>>  \* Ярокли
NonOperational == <<1071, 1088, 1086, 1082, 1089, 1080, 1079>>  \* Яроксиз
NeedsRepair == <<1058, 1072, 1098, 1084, 1080, 1088, 1090, 1072, 1083, 1072, 1073>>  \* Таъмирталаб
Unknown == <<1061, 1086, 1083, 1072, 1090, 1080, 32, 1085, 1086, 1084, 1072, 1098, 1083, 1091, 1084>>  \* Холати номаълум

StatusLabels == {Operational, NonOperational, NeedsRepair, Unknown}

\* the text normalize_status tests: prenorm, strip, lower, punctuation to
\* spaces, runs of spaces collapsed
StatusKey(status) == Strip(Collapse(SubPunct(LowerStr(Strip(prenorm(status))))))

normalize_status(status) ==
    IF Strip(status) = <<>> THEN Unknown
    ELSE LET s == StatusKey(status) IN
         IF ContainsAny(s, IconOperational) THEN Operational
         ELSE IF ContainsAny(s, IconNonOperational) THEN NonOperational
         ELSE IF ContainsAny(s, IconNeedsRepair) THEN NeedsRepair
         ELSE IF ContainsAny(s, OperationalWords) \/ WorkingConditionRe(s)
              THEN Operational
         ELSE IF \/ ContainsAny(s, NonOperationalWords)
                 \/ (Contains(s, W_ispraven) /\ Contains(s, W_ne))
              THEN NonOperational
         ELSE IF ContainsAny(s, RepairWords) \/ RepairRe(s) THEN NeedsRepair
         ELSE Unknown

\* the cells considered: up to MaxWords of these pieces, written one after
\* the other
StatusTokens ==
    {W_ne, W_ispraven, W_remont, <<32>>, <<33>>, <<160>>, <<180>>, <<9989>>,
     Operational, NonOperational, NeedsRepair, Unknown}

RECURSIVE Flatten(_)
Flatten(ws) == IF ws = <<>> THEN <<>> ELSE ws[1] \o Flatten(Tail(ws))

\* the sequences of at most n members of S
SeqsUpTo(S, n) == UNION {[1..k -> S] : k \in 0..n}

StatusInputs ==
    {Flatten(ws) : ws \in UNION {[1..n -> StatusTokens] : n \in 0..MaxWords}}

\* -------------------------------------------------------- schema resolver
\* the alias list STATUS_ALIASES
STATUS_ALIASES ==
    << <<1061, 1086, 1083, 1072, 1090, 1080>>,                                                                    \* Холати
       <<1202, 1086, 1083, 1072, 1090, 1080>>,                                                                    \* Ҳолати
       <<1057, 1090, 1072, 1090, 1091, 1089>>,                                                                    \* Статус
       <<1057, 1086, 1089, 1090, 1086, 1103, 1085, 1080, 1077>>,                                                  \* Состояние
       <<1202, 1086, 1083, 1072, 1090>>,                                                                          \* Ҳолат
       <<72, 111, 108, 97, 116, 105>>,                                                                            \* Holati
       <<83, 116, 97, 116, 117, 115>>,                                                                            \* Status
       <<1058, 1077, 1093, 1085, 1080, 1082, 1072, 32, 1093, 1086, 1083, 1072, 1090, 1080>>,                      \* Техника холати
       <<1058, 1077, 1093, 1085, 1080, 1082, 1072, 32, 1203, 1086, 1083, 1072, 1090, 1080>>,                      \* Техника ҳолати
       <<1058, 1077, 1093, 1085, 1080, 1082, 1072, 32, 1089, 1090, 1072, 1090, 1091, 1089, 1099>>,                \* Техника статусы
       <<1058, 1077, 1093, 1085, 1080, 1082, 1072, 32, 1089, 1086, 1089, 1090, 1086, 1103, 1085, 1080, 1077>> >>  \* Техника состояние

\* the alias list TYPE_ALIASES
TYPE_ALIASES ==
    << <<1058, 1077, 1093, 1085, 1080, 1082, 1072, 32, 1090, 1091, 1088, 1080>>,                                                    \* Техника тури
       <<1058, 1077, 1093, 1085, 1080, 1082, 1080, 32, 1090, 1091, 1088, 1080>>,                                                    \* Техники тури
       <<1058, 1080, 1087, 32, 1090, 1077, 1093, 1085, 1080, 1082, 1080>>,                                                          \* Тип техники
       <<1058, 1091, 1088, 1080, 32, 1090, 1077, 1093, 1085, 1080, 1082, 1072>>,                                                    \* Тури техника
       <<1058, 1077, 1093, 1085, 1080, 1082, 1072, 32, 1090, 1118, 1088, 1080>>,                                                    \* Техника тўри
       <<1042, 1080, 1076, 32, 1090, 1077, 1093, 1085, 1080, 1082, 1080>>,                                                          \* Вид техники
       <<1053, 1072, 1080, 1084, 1077, 1085, 1086, 1074, 1072, 1085, 1080, 1077, 32, 1090, 1077, 1093, 1085, 1080, 1082, 1080>> >>  \* Наименование техники

\* the alias list REGION_ALIASES
REGION_ALIASES ==
    << <<1041, 1080, 1088, 1080, 1082, 1090, 1080, 1088, 1080, 1083, 1075, 1072, 1085, 32, 1096, 1072, 1093, 1072, 1088, 32, 1105, 1082, 1080, 32, 1090, 1091, 1084, 1072, 1085>>,    \* Бириктирилган шахар ёки туман
       <<1043, 1086, 1088, 1086, 1076, 47, 1088, 1072, 1081, 1086, 1085>>,                                                                                                            \* Город/район
       <<1056, 1072, 1081, 1086, 1085>>,                                                                                                                                              \* Район
       <<1058, 1091, 1084, 1072, 1085>>,                                                                                                                                              \* Туман
       <<1053, 1072, 1089, 1077, 1083, 1077, 1085, 1085, 1099, 1081, 32, 1087, 1091, 1085, 1082, 1090>>,                                                                              \* Населенный пункт
       <<1064, 1072, 1093, 1072, 1088, 47, 1090, 1091, 1084, 1072, 1085>>,                                                                                                            \* Шахар/туман
       <<1064, 1072, 1093, 1072, 1088, 32, 1105, 1082, 1080, 32, 1090, 1091, 1084, 1072, 1085>> >>                                                                                    \* Шахар ёки туман

\* the alias list QTY_ALIASES
QTY_ALIASES ==
    << <<1050, 1086, 1083, 1080, 1095, 1077, 1089, 1090, 1074, 1086>>,    \* Количество
       <<1050, 1086, 1083, 45, 1074, 1086>>,                              \* Кол-во
       <<1057, 1086, 1085, 1080>>,                                        \* Сони
       <<81, 116, 121>>,                                                  \* Qty
       <<67, 111, 117, 110, 116>> >>                                      \* Count

\* the alias list TRACKER_ALIASES
TRACKER_ALIASES ==
    << <<71, 80, 83>>,                                                                                                                                                \* GPS
       <<71, 112, 115>>,                                                                                                                                              \* Gps
       <<103, 112, 115>>,                                                                                                                                             \* gps
       <<1058, 1088, 1077, 1082, 1077, 1088>>,                                                                                                                        \* Трекер
       <<1058, 1088, 1077, 1082, 1077, 1088, 32, 1091, 1089, 1090, 1072, 1085, 1086, 1074, 1083, 1077, 1085>>,                                                        \* Трекер установлен
       <<1053, 1072, 1083, 1080, 1095, 1080, 1077, 32, 1090, 1088, 1077, 1082, 1077, 1088, 1072>>,                                                                    \* Наличие трекера
       <<1053, 1072, 1083, 1080, 1095, 1080, 1077, 32, 71, 80, 83>>,                                                                                                  \* Наличие GPS
       <<71, 80, 83, 32, 1090, 1088, 1077, 1082, 1077, 1088>>,                                                                                                        \* GPS трекер
       <<71, 80, 83, 45, 1090, 1088, 1077, 1082, 1077, 1088>>,                                                                                                        \* GPS-трекер
       <<71, 80, 83, 32, 47, 32, 1043, 1051, 1054, 1053, 1040, 1057, 1057>>,                                                                                          \* GPS / ГЛОНАСС
       <<71, 80, 83, 47, 1043, 1051, 1054, 1053, 1040, 1057, 1057>>,                                                                                                  \* GPS/ГЛОНАСС
       <<71, 80, 83, 32, 1073, 1080, 1083, 1072, 1085, 32, 1090, 1072, 1098, 1084, 1080, 1085, 1083, 1072, 1085, 1075, 1072, 1085, 1083, 1080, 1075, 1080>>,          \* GPS билан таъминланганлиги
       <<71, 80, 83, 32, 1073, 1080, 1083, 1072, 1087, 1085, 32, 1090, 1072, 1098, 1084, 1080, 1085, 1083, 1072, 1085, 1075, 1072, 1085, 1083, 1080, 1075, 1080>> >>  \* GPS билапн таъминланганлиги

\* find_column: a token set of the heuristic
StatusTokenSet ==
    { <<1093, 1086, 1083, 1072, 1090>>,                            \* холат
       <<1203, 1086, 1083, 1072, 1090>>,                            \* ҳолат
       <<104, 111, 108, 97, 116>>,                                  \* holat
       <<115, 116, 97, 116, 117, 115>>,                             \* status
       <<1089, 1086, 1089, 1090, 1086, 1103, 1085, 1080, 1077>> }  \* состояние

\* find_column: a token set of the heuristic
RegionTokenSet ==
    { <<1096, 1072, 1093, 1072, 1088>>,    \* шахар
       <<1090, 1091, 1084, 1072, 1085>>,    \* туман
       <<1088, 1072, 1081, 1086, 1085>>,    \* район
       <<1075, 1086, 1088, 1086, 1076>> }  \* город

\* find_column: a token set of the heuristic
TypeTokenSet ==
    { <<1090, 1077, 1093, 1085, 1080, 1082, 1072>>,    \* техника
       <<1090, 1080, 1087>>,                            \* тип
       <<1090, 1091, 1088>>,                            \* тур
       <<1074, 1080, 1076>> }                          \* вид

\* find_column: token_sets, in order
token_sets == <<StatusTokenSet, RegionTokenSet, TypeTokenSet>>


\* None: no text has this form
None == <<-1>>

HToX(ch) == IF ch = 1203 THEN 1093 ELSE ch

NotSpace(ch) == ~IsSpace(ch)

\* _normalize_header: strip, lower, the letter h-with-descender to kh, all
\* white space removed
normalize_header(s) ==
    LET l == LowerStr(Strip(s))
    IN  SelectSeq([i \in 1..Len(l) |-> HToX(l[i])], NotSpace)

RECURSIVE norm_map(_)
\* _norm_map: the dict {_normalize_header(c): c for c in cols} as the
\* sequence of its items; a key keeps the place of its first header and the
\* value of its last
norm_map(cols) ==
    IF cols = <<>> THEN <<>>
    ELSE LET m == norm_map(SubSeq(cols, 1, Len(cols) - 1))
             c == cols[Len(cols)]
             k == normalize_header(c)
         IN  IF \E j \in 1..Len(m) : m[j].nc = k
             THEN [j \in 1..Len(m) |-> IF m[j].nc = k THEN [nc |-> k, orig |-> c] ELSE m[j]]
             ELSE Append(m, [nc |-> k, orig |-> c])

\* norm_cols[k]
Lookup(nm, k) == nm[CHOOSE j \in 1..Len(nm) : nm[j].nc = k].orig

\* find_column, step 1: the aliases, in order, whose normalized form is a key
ExactAliases(nm, aliases) ==
    {i \in 1..Len(aliases) : \E j \in 1..Len(nm) : nm[j].nc = normalize_header(aliases[i])}

\* a substring scan that keeps the first header it meets
SubstrStepFirst(best, ka, item) ==
    IF ka # <<>> /\ Contains(item.nc, ka) /\ best = None THEN item.orig ELSE best

\* find_column, step 2, the body of the inner loop
SubstrStep(best, ka, item) ==
    IF ka # <<>> /\ Contains(item.nc, ka)
       /\ (best = None \/ Len(item.nc) < Len(normalize_header(best)))
    THEN item.orig
    ELSE best

RECURSIVE SubstrWinner(_, _, _, _)
\* find_column, step 2: the turn, among the turns lo to hi of the two
\* loops (the aliases outside, the items of norm_cols inside), whose item
\* the loops would leave in best had they started at lo with best = None;
\* 0 if none.  The turns of the second half are set against the winner
\* of the first by the body of the loop.
SubstrWinner(nm, aliases, lo, hi) ==
    IF lo > hi THEN 0
    ELSE IF lo = hi
    THEN IF SubstrStep(None, normalize_header(aliases[((lo - 1) \div Len(nm)) + 1]),
                       nm[((lo - 1) % Len(nm)) + 1]) = None
         THEN 0
         ELSE lo
    ELSE LET a == SubstrWinner(nm, aliases, lo, (lo + hi) \div 2)
             b == SubstrWinner(nm, aliases, ((lo + hi) \div 2) + 1, hi)
         IN  IF a = 0 THEN b
             ELSE IF b = 0 THEN a
             ELSE IF SubstrStep(nm[((a - 1) % Len(nm)) + 1].orig,
                                normalize_header(aliases[((b - 1) \div Len(nm)) + 1]),
                                nm[((b - 1) % Len(nm)) + 1])
                     = nm[((a - 1) % Len(nm)) + 1].orig
             THEN a
             ELSE b

\* find_column, step 2: best after the first p turns of the two loops
SubstrScan(nm, aliases, p) ==
    IF SubstrWinner(nm, aliases, 1, p) = 0 THEN None
    ELSE nm[((SubstrWinner(nm, aliases, 1, p) - 1) % Len(nm)) + 1].orig

\* find_column, step 3: the turns of the two loops, the token sets outside,
\* at which a header holds a token of the set
TokenHits(nm) ==
    {p \in 1..(Len(token_sets) * Len(nm)) :
        \E tok \in token_sets[((p - 1) \div Len(nm)) + 1] :
            Contains(nm[((p - 1) % Len(nm)) + 1].nc, tok)}

Min(S) == CHOOSE x \in S : \A y \in S : x <= y

Heuristic(nm) ==
    IF TokenHits(nm) = {} THEN None
    ELSE nm[((Min(TokenHits(nm)) - 1) % Len(nm)) + 1].orig

\* a resolver that looks for substrings before exact matches
find_column_substring_first(cols, aliases) ==
    LET nm == norm_map(cols)
        best == SubstrScan(nm, aliases, Len(aliases) * Len(nm))
    IN  IF best # None /\ best # <<>> THEN best
        ELSE IF ExactAliases(nm, aliases) # {}
        THEN Lookup(nm, normalize_header(aliases[Min(ExactAliases(nm, aliases))]))
        ELSE Heuristic(nm)

\* find_column on the headers cols of a frame
find_column(cols, aliases) ==
    LET nm == norm_map(cols)
        best == SubstrScan(nm, aliases, Len(aliases) * Len(nm))
    IN  IF ExactAliases(nm, aliases) # {}
        THEN Lookup(nm, normalize_header(aliases[Min(ExactAliases(nm, aliases))]))
        ELSE IF best # None /\ best # <<>> THEN best
        ELSE Heuristic(nm)

\* the column headers considered
HeaderPool ==
    { <<1058, 1080, 1087, 32, 1090, 1077, 1093, 1085, 1080, 1082, 1080>>,                                                                                          \* Тип техники
       <<1090, 1080, 1087, 32, 32, 1058, 1045, 1061, 1053, 1048, 1050, 1048, 32>>,                                                                                  \* тип  ТЕХНИКИ 
       <<1058, 1080, 1087>>,                                                                                                                                        \* Тип
       <<1058, 1080, 1087, 32, 1090, 1077, 1093, 1085, 1080, 1082, 1080, 32, 40, 1077, 1076, 46, 41>>,                                                              \* Тип техники (ед.)
       <<1042, 1080, 1076, 32, 1090, 1077, 1093, 1085, 1080, 1082, 1080, 32, 1080, 32, 1086, 1073, 1086, 1088, 1091, 1076, 1086, 1074, 1072, 1085, 1080, 1103>>,    \* Вид техники и оборудования
       <<1202, 1086, 1083, 1072, 1090, 1080>>,                                                                                                                      \* Ҳолати
       <<1057, 1090, 1072, 1090, 1091, 1089>>,                                                                                                                      \* Статус
       <<1057, 1090, 1072, 1090, 1091, 1089, 49>>,                                                                                                                  \* Статус1
       <<1058, 1077, 1093, 1085, 1080, 1082, 1072, 32, 1093, 1086, 1083, 1072, 1090, 1080>>,                                                                        \* Техника холати
       <<1050, 1086, 1083, 45, 1074, 1086>>,                                                                                                                        \* Кол-во
       <<8470, 32, 1058, 47, 1088>>,                                                                                                                                \* № Т/р
       <<1202, 1086, 1083, 1072, 1090, 32, 1090, 1077, 1093, 1085, 1080, 1082, 1080>> }                                                                            \* Ҳолат техники

\* the aliases considered for lists other than the five of the program
AliasPool ==
    { <<1057, 1090, 1072, 1090, 1091, 1089>>,                                \* Статус
       <<1058, 1080, 1087, 32, 1090, 1077, 1093, 1085, 1080, 1082, 1080>>,    \* Тип техники
       <<1061, 1086, 1083, 1072, 1090, 1080>>,                                \* Холати
       <<1042, 1080, 1076, 32, 1090, 1077, 1093, 1085, 1080, 1082, 1080>> }  \* Вид техники

ColumnInputs == SeqsUpTo(HeaderPool, MaxCols)

AliasInputs ==
    {STATUS_ALIASES, TYPE_ALIASES, REGION_ALIASES, QTY_ALIASES, TRACKER_ALIASES}
        \cup SeqsUpTo(AliasPool, 2)

\* --------------------------------------------------------- tracker flag
\* normalize_tracker_flag: the phrases for "not present"
AbsentPhrases ==
    { <<1084, 1072, 1074, 1078, 1091, 1076, 32, 1101, 1084, 1072, 1089>>,    \* мавжуд эмас
       <<109, 97, 118, 106, 117, 100, 32, 101, 109, 97, 115>> }              \* mavjud emas

\* normalize_tracker_flag: the phrases for "present"
PresentPhrases ==
    { <<1084, 1072, 1074, 1078, 1091, 1076>>,    \* мавжуд
       <<109, 97, 118, 106, 117, 100>> }         \* mavjud

\* normalize_tracker_flag: the whole texts for "no"
NoWords ==
    { <<110, 111>>,                  \* no
       <<1085, 1077, 1090>>,          \* нет
       <<121, 111, 39, 113>>,         \* yo'q
       <<1081, 1118, 1179>>,          \* йўқ
       <<121, 117, 107>>,             \* yuk
       <<1081, 1091, 1082>>,          \* йук
       <<48>>,                        \* 0
       <<102, 97, 108, 115, 101>>,    \* false
       <<110>> }                     \* n

\* normalize_tracker_flag: the whole texts for "yes"
YesWords ==
    { <<121, 101, 115>>,             \* yes
       <<1076, 1072>>,                \* да
       <<104, 97>>,                   \* ha
       <<98, 111, 114>>,              \* bor
       <<1077, 1089, 1090, 1100>>,    \* есть
       <<49>>,                        \* 1
       <<116, 114, 117, 101>>,        \* true
       <<121>>,                       \* y
       <<1076>> }                    \* д

\* normalize_tracker_flag: the words for the device
TrackerWords ==
    { <<103, 112, 115>>,                         \* gps
       <<1090, 1088, 1077, 1082, 1077, 1088>> }  \* трекер

\* normalize_tracker_flag: the words that deny the device
DenyWords ==
    { <<1085, 1077, 1090>>,     \* нет
       <<121, 111, 39, 113>>,    \* yo'q
       <<1081, 1118, 1179>> }   \* йўқ

\* float: the spellings of infinity
InfWords ==
    { <<105, 110, 102>>,                             \* inf
       <<105, 110, 102, 105, 110, 105, 116, 121>> }  \* infinity

W_nan == <<110, 97, 110>>  \* nan

IsDigit(ch) == ch \in 48..57

CommaToDot(ch) == IF ch = 44 THEN 46 ELSE ch

\* s without a leading sign
Unsigned(s) == IF s # <<>> /\ s[1] \in {43, 45} THEN Tail(s) ELSE s

\* digits with at most one point among them
IsDecimal(u) ==
    /\ \E i \in 1..Len(u) : IsDigit(u[i])
    /\ \A i \in 1..Len(u) : IsDigit(u[i]) \/ u[i] = 46
    /\ Cardinality({i \in 1..Len(u) : u[i] = 46}) <= 1

\* float(s) on the texts considered (no exponent, no digit separator):
\* "pos", "zero", "neg", "nan" for the number read, "ValueError" otherwise
Float(s) ==
    LET u == Unsigned(s)
        minus == s # <<>> /\ s[1] = 45
    IN  IF IsDecimal(u)
        THEN IF \A i \in 1..Len(u) : u[i] \in {48, 46} THEN "zero"
             ELSE IF minus THEN "neg" ELSE "pos"
        ELSE IF LowerStr(u) \in InfWords THEN (IF minus THEN "neg" ELSE "pos")
        ELSE IF LowerStr(u) = W_nan THEN "nan"
        ELSE "ValueError"

\* a parser that looks for "present" before "not present"
normalize_tracker_flag_present_first(value) ==
    IF value = None THEN FALSE
    ELSE LET s == Strip(value)
             num == Float([i \in 1..Len(s) |-> CommaToDot(s[i])])
             s_low == LowerStr(s)
         IN  IF s = <<>> THEN FALSE
             ELSE IF num = "pos" THEN TRUE
             ELSE IF num = "zero" THEN FALSE
             ELSE IF \E w \in PresentPhrases : Contains(s_low, w) THEN TRUE
             ELSE IF \E w \in AbsentPhrases : Contains(s_low, w) THEN FALSE
             ELSE IF s_low \in NoWords THEN FALSE
             ELSE IF s_low \in YesWords THEN TRUE
             ELSE /\ \E w \in TrackerWords : Contains(s_low, w)
                  /\ \A w \in DenyWords : ~Contains(s_low, w)

\* normalize_tracker_flag on None or on the text str(value)
normalize_tracker_flag(value) ==
    IF value = None THEN FALSE
    ELSE LET s == Strip(value)
             num == Float([i \in 1..Len(s) |-> CommaToDot(s[i])])
             s_low == LowerStr(s)
         IN  IF s = <<>> THEN FALSE
             ELSE IF num = "pos" THEN TRUE
             ELSE IF num = "zero" THEN FALSE
             ELSE IF \E w \in AbsentPhrases : Contains(s_low, w) THEN FALSE
             ELSE IF \E w \in PresentPhrases : Contains(s_low, w) THEN TRUE
             ELSE IF s_low \in NoWords THEN FALSE
             ELSE IF s_low \in YesWords THEN TRUE
             ELSE /\ \E w \in TrackerWords : Contains(s_low, w)
                  /\ \A w \in DenyWords : ~Contains(s_low, w)

\* the cells considered: None, or up to MaxWords of these pieces, written one
\* after the other
TrackerTokens ==
    { <<48>>,                                                                \* 0
       <<49>>,                                                                \* 1
       <<53>>,                                                                \* 5
       <<46>>,                                                                \* .
       <<44>>,                                                                \* ,
       <<45>>,                                                                \* -
       <<32>>,                                                                \*  
       <<71, 80, 83>>,                                                        \* GPS
       <<1084, 1072, 1074, 1078, 1091, 1076>>,                                \* мавжуд
       <<1084, 1072, 1074, 1078, 1091, 1076, 32, 1101, 1084, 1072, 1089>>,    \* мавжуд эмас
       <<77, 97, 118, 106, 117, 100, 32, 101, 109, 97, 115>>,                 \* Mavjud emas
       <<1085, 1077, 1090>> }                                                \* нет

TrackerInputs ==
    {None} \cup {Flatten(ws) : ws \in SeqsUpTo(TrackerTokens, MaxWords)}

\* ------------------------------------------------------- type classifier
\* normalize_tech_type: the texts that stand for no value
NullWords ==
    { <<110, 97, 110>>,          \* nan
       <<110, 111, 110, 101>>,    \* none
       <<110, 117, 108, 108>>,    \* null
       <<>> }                    \* 

\* normalize_tech_type: the marks of a totals row
summary_keywords ==
    { <<1078, 1072, 1084, 1080>>,                      \* жами
       <<1080, 1090, 1086, 1075, 1086>>,                \* итого
       <<1073, 1072, 1088, 1095, 1072, 1089, 1080>>,    \* барчаси
       <<1074, 1089, 1077, 1075, 1086>>,                \* всего
       <<106, 97, 109, 105>>,                           \* jami
       <<97, 108, 108>> }                              \* all

\* normalize_tech_type: type_mapping, key and label, in table order
type_mapping ==
    << [key |-> <<1087, 1086, 1075, 1088, 1091, 1079, 1095, 1080, 1082>>,
        label |-> <<1055, 1086, 1075, 1088, 1091, 1079, 1095, 1080, 1082>>],  \* погрузчик: Погрузчик
       [key |-> <<1084, 1080, 1085, 1080, 32, 1073, 1086, 1088, 1090, 1086, 1074, 1086, 1081>>,
        label |-> <<1052, 1080, 1085, 1080, 32, 1073, 1086, 1088, 1090, 1086, 1074, 1086, 1081>>],  \* мини бортовой: Мини бортовой
       [key |-> <<1084, 1080, 1085, 1080, 1080, 32, 1073, 1086, 1088, 1090, 1086, 1074, 1086, 1081>>,
        label |-> <<1052, 1080, 1085, 1080, 32, 1073, 1086, 1088, 1090, 1086, 1074, 1086, 1081>>],  \* минии бортовой: Мини бортовой
       [key |-> <<1084, 1080, 1082, 1088, 1086, 32, 1073, 1086, 1088, 1090, 1086, 1074, 1086, 1081>>,
        label |-> <<1052, 1080, 1085, 1080, 32, 1073, 1086, 1088, 1090, 1086, 1074, 1086, 1081>>],  \* микро бортовой: Мини бортовой
       [key |-> <<1101, 1074, 1072, 1082, 1091, 1072, 1090, 1086, 1088>>,
        label |-> <<1069, 1074, 1072, 1082, 1091, 1072, 1090, 1086, 1088>>],  \* эвакуатор: Эвакуатор
       [key |-> <<1093, 1083, 1086, 1088, 1086, 1074, 1086, 1079>>,
        label |-> <<1061, 1083, 1086, 1088, 1086, 1074, 1086, 1079>>],  \* хлоровоз: Хлоровоз
       [key |-> <<1089, 1072, 1084, 1086, 1089, 1074, 1072, 1083>>,
        label |-> <<1057, 1072, 1084, 1086, 1089, 1074, 1072, 1083>>],  \* самосвал: Самосвал
       [key |-> <<1101, 1082, 1089, 1082, 1072, 1074, 1072, 1090, 1086, 1088>>,
        label |-> <<1069, 1082, 1089, 1082, 1072, 1074, 1072, 1090, 1086, 1088>>],  \* экскаватор: Экскаватор
       [key |-> <<1090, 1088, 1072, 1082, 1090, 1086, 1088>>,
        label |-> <<1058, 1088, 1072, 1082, 1090, 1086, 1088>>],  \* трактор: Трактор
       [key |-> <<1073, 1091, 1083, 1100, 1076, 1086, 1079, 1077, 1088>>,
        label |-> <<1041, 1091, 1083, 1100, 1076, 1086, 1079, 1077, 1088>>],  \* бульдозер: Бульдозер
       [key |-> <<1072, 1074, 1090, 1086, 1082, 1088, 1072, 1085>>,
        label |-> <<1040, 1074, 1090, 1086, 1082, 1088, 1072, 1085>>],  \* автокран: Автокран
       [key |-> <<1073, 1077, 1090, 1086, 1085, 1086, 1084, 1077, 1096, 1072, 1083, 1082, 1072>>,
        label |-> <<1041, 1077, 1090, 1086, 1085, 1086, 1084, 1077, 1096, 1072, 1083, 1082, 1072>>],  \* бетономешалка: Бетономешалка
       [key |-> <<1094, 1080, 1089, 1090, 1077, 1088, 1085, 1072>>,
        label |-> <<1062, 1080, 1089, 1090, 1077, 1088, 1085, 1072>>],  \* цистерна: Цистерна
       [key |-> <<1092, 1091, 1088, 1075, 1086, 1085>>,
        label |-> <<1060, 1091, 1088, 1075, 1086, 1085>>],  \* фургон: Фургон
       [key |-> <<1088, 1077, 1092, 1088, 1080, 1078, 1077, 1088, 1072, 1090, 1086, 1088>>,
        label |-> <<1056, 1077, 1092, 1088, 1080, 1078, 1077, 1088, 1072, 1090, 1086, 1088>>],  \* рефрижератор: Рефрижератор
       [key |-> <<1075, 1080, 1076, 1088, 1086, 1083, 1080, 1085, 1072, 1084, 1080, 1095, 1077, 1089, 1082, 1072, 1103>>,
        label |-> <<1043, 1080, 1076, 1088, 1086, 1076, 1080, 1085, 1072, 1084, 1080, 1095, 1077, 1089, 1082, 1072, 1103>>],  \* гидролинамическая: Гидродинамическая
       [key |-> <<1075, 1080, 1076, 1088, 1086, 1083, 1080, 1085, 1072, 1084, 1080, 1095, 1077, 1089, 1082, 1080, 1081>>,
        label |-> <<1043, 1080, 1076, 1088, 1086, 1076, 1080, 1085, 1072, 1084, 1080, 1095, 1077, 1089, 1082, 1072, 1103>>],  \* гидролинамический: Гидродинамическая
       [key |-> <<1075, 1080, 1076, 1088, 1086, 1076, 1080, 1085, 1072, 1084, 1080, 1095, 1077, 1089, 1082, 1072, 1103>>,
        label |-> <<1043, 1080, 1076, 1088, 1086, 1076, 1080, 1085, 1072, 1084, 1080, 1095, 1077, 1089, 1082, 1072, 1103>>],  \* гидродинамическая: Гидродинамическая
       [key |-> <<1075, 1080, 1076, 1088, 1086, 1076, 1080, 1085, 1072, 1084, 1080, 1095, 1077, 1089, 1082, 1080, 1081>>,
        label |-> <<1043, 1080, 1076, 1088, 1086, 1076, 1080, 1085, 1072, 1084, 1080, 1095, 1077, 1089, 1082, 1072, 1103>>],  \* гидродинамический: Гидродинамическая
       [key |-> <<1075, 1080, 1076, 1088, 1072, 1074, 1083, 1080, 1095, 1077, 1089, 1082, 1072, 1103>>,
        label |-> <<1043, 1080, 1076, 1088, 1086, 1076, 1080, 1085, 1072, 1084, 1080, 1095, 1077, 1089, 1082, 1072, 1103>>],  \* гидравлическая: Гидродинамическая
       [key |-> <<1083, 1072, 1073, 1086, 1083, 1072, 1090, 1086, 1088, 1085, 1072, 1103>>,
        label |-> <<1051, 1072, 1073, 1086, 1088, 1072, 1090, 1086, 1088, 1085, 1072, 1103>>],  \* лаболаторная: Лабораторная
       [key |-> <<1083, 1086, 1073, 1086, 1088, 1072, 1090, 1086, 1088, 1085, 1072, 1103>>,
        label |-> <<1051, 1072, 1073, 1086, 1088, 1072, 1090, 1086, 1088, 1085, 1072, 1103>>],  \* лобораторная: Лабораторная
       [key |-> <<1083, 1072, 1073, 1086, 1088, 1072, 1090, 1086, 1088, 1085, 1072, 1103>>,
        label |-> <<1051, 1072, 1073, 1086, 1088, 1072, 1090, 1086, 1088, 1085, 1072, 1103>>],  \* лабораторная: Лабораторная
       [key |-> <<1082, 1072, 1084, 1072, 1079>>,
        label |-> <<1050, 1072, 1084, 1072, 1079>>],  \* камаз: Камаз
       [key |-> <<1079, 1080, 1083>>,
        label |-> <<1047, 1048, 1051>>],  \* зил: ЗИЛ
       [key |-> <<1075, 1072, 1079, 1077, 1083, 1100>>,
        label |-> <<1043, 1040, 1047, 1077, 1083, 1100>>],  \* газель: ГАЗель
       [key |-> <<1091, 1072, 1079>>,
        label |-> <<1059, 1040, 1047>>],  \* уаз: УАЗ
       [key |-> <<1082, 1086, 1084, 1087, 1088, 1077, 1089, 1089, 1086, 1088>>,
        label |-> <<1050, 1086, 1084, 1087, 1088, 1077, 1089, 1089, 1086, 1088>>],  \* компрессор: Компрессор
       [key |-> <<1075, 1077, 1085, 1077, 1088, 1072, 1090, 1086, 1088>>,
        label |-> <<1043, 1077, 1085, 1077, 1088, 1072, 1090, 1086, 1088>>],  \* генератор: Генератор
       [key |-> <<1072, 1074, 1090, 1086, 1073, 1091, 1089>>,
        label |-> <<1040, 1074, 1090, 1086, 1073, 1091, 1089>>],  \* автобус: Автобус
       [key |-> <<1084, 1080, 1082, 1088, 1086, 1072, 1074, 1090, 1086, 1073, 1091, 1089>>,
        label |-> <<1052, 1080, 1082, 1088, 1086, 1072, 1074, 1090, 1086, 1073, 1091, 1089>>],  \* микроавтобус: Микроавтобус
       [key |-> <<1084, 1072, 1096, 1080, 1085, 1072>>,
        label |-> <<1052, 1072, 1096, 1080, 1085, 1072>>],  \* машина: Машина
       [key |-> <<1075, 1088, 1091, 1079, 1086, 1074, 1080, 1082>>,
        label |-> <<1043, 1088, 1091, 1079, 1086, 1074, 1080, 1082>>] >>  \* грузовик: Грузовик

\* str.upper on one character: Latin, Cyrillic and extended Cyrillic letters
Upper(ch) ==
    IF ch \in 97..122 THEN ch - 32
    ELSE IF ch \in 1072..1103 THEN ch - 32
    ELSE IF ch \in 1104..1119 THEN ch - 80
    ELSE IF ch \in 1163..1215 /\ ch % 2 = 1 THEN ch - 1
    ELSE ch

\* the title case of one character: of U+0149 a modifier apostrophe and N
Title(ch) == IF ch = 329 THEN <<700, 78>> ELSE <<Upper(ch)>>

\* str.capitalize: the first character in title case, the others in lower case
Capitalize(s) ==
    IF s = <<>> THEN <<>>
    ELSE Title(s[1]) \o [i \in 1..(Len(s) - 1) |-> Lower(s[i + 1])]

\* the text normalize_tech_type tests, built as normalize_status builds its own
TypeKey(tech_type) == StatusKey(tech_type)

\* the places of type_mapping whose key is part of the text
MappingHits(normalized) ==
    {i \in 1..Len(type_mapping) : Contains(normalized, type_mapping[i].key)}

\* a classifier that keeps unknown names as they were written
normalize_tech_type_raw_fallback(tech_type) ==
    IF Strip(tech_type) = <<>> THEN None
    ELSE LET normalized == TypeKey(tech_type) IN
         IF normalized = <<>> \/ normalized \in NullWords THEN None
         ELSE IF \E k \in summary_keywords : Contains(normalized, k) THEN None
         ELSE IF MappingHits(normalized) # {}
              THEN type_mapping[Min(MappingHits(normalized))].label
         ELSE tech_type

\* normalize_tech_type on a text
normalize_tech_type(tech_type) ==
    IF Strip(tech_type) = <<>> THEN None
    ELSE LET normalized == TypeKey(tech_type) IN
         IF normalized = <<>> \/ normalized \in NullWords THEN None
         ELSE IF \E k \in summary_keywords : Contains(normalized, k) THEN None
         ELSE IF MappingHits(normalized) # {}
              THEN type_mapping[Min(MappingHits(normalized))].label
         ELSE Capitalize(Strip(tech_type))

\* is_equipment_type: the marks of equipment
equipment_keywords ==
    { <<1087, 1088, 1080, 1094, 1077, 1087>>,                                \* прицеп
       <<1089, 1072, 1082>>,                                                  \* сак
       <<1094, 1080, 1089, 1090, 1077, 1088, 1085>>,                          \* цистерн
       <<1085, 1072, 1089, 1086, 1089>>,                                      \* насос
       <<1082, 1086, 1084, 1087, 1088, 1077, 1089, 1089, 1086, 1088>>,        \* компрессор
       <<1075, 1077, 1085, 1077, 1088, 1072, 1090, 1086, 1088>>,              \* генератор
       <<1072, 1075, 1088, 1077, 1075, 1072, 1090>>,                          \* агрегат
       <<1084, 1086, 1090, 1086, 1087, 1086, 1084, 1087>>,                    \* мотопомп
       <<1085, 1072, 1089, 1086, 1089, 1085, 1072, 1103>>,                    \* насосная
       <<1085, 1072, 1089, 1086, 1089, 32, 1089, 1090, 1072, 1085, 1094>> }  \* насос станц

\* is_equipment_type on a text
is_equipment_type(type_name) ==
    \E k \in equipment_keywords : Contains(LowerStr(type_name), k)

\* ------------------------------------------------------------ row pipeline
W_inf == <<105, 110, 102>>  \* inf
NotGiven == <<1053, 1077, 32, 1091, 1082, 1072, 1079, 1072, 1085>>  \* Не указан
N_qty == <<113, 116, 121>>  \* qty
N_region_name == <<114, 101, 103, 105, 111, 110, 95, 110, 97, 109, 101>>  \* region_name
N_type_normalized == <<116, 121, 112, 101, 95, 110, 111, 114, 109, 97, 108, 105, 122, 101, 100>>  \* type_normalized
N_status_normalized == <<115, 116, 97, 116, 117, 115, 95, 110, 111, 114, 109, 97, 108, 105, 122, 101, 100>>  \* status_normalized
N_city_district == <<99, 105, 116, 121, 95, 100, 105, 115, 116, 114, 105, 99, 116>>  \* city_district

\* A cell of get_all_records(): a text, an integer, a float that is a whole
\* number of halves, the float inf, or NaN (a float nan, or the key missing
\* from the row).  Texts that read as numbers arrive as numbers.
StrCell(t) == [kind |-> "str", text |-> t, num |-> 0]
IntCell(n) == [kind |-> "int", text |-> <<>>, num |-> n]
HalvesCell(h) == [kind |-> "float", text |-> <<>>, num |-> h]
InfCell == [kind |-> "inf", text |-> <<>>, num |-> 0]
NaNCell == [kind |-> "nan", text |-> <<>>, num |-> 0]

RECURSIVE Digits(_)
\* str(n) for n >= 0
Digits(n) == IF n < 10 THEN <<48 + n>> ELSE Digits(n \div 10) \o <<48 + (n % 10)>>

\* str(n)
IntStr(n) == IF n < 0 THEN <<45>> \o Digits(-n) ELSE Digits(n)

\* int(x) for the float of h halves: towards zero
Trunc(h) == IF h < 0 THEN -((-h) \div 2) ELSE h \div 2

\* str(value)
PyStr(cell) ==
    CASE cell.kind = "str" -> cell.text
      [] cell.kind = "int" -> IntStr(cell.num)
      [] cell.kind = "float" ->
            (IF cell.num < 0 THEN <<45>> ELSE <<>>)
                \o Digits((IF cell.num < 0 THEN -cell.num ELSE cell.num) \div 2)
                \o (IF cell.num % 2 = 0 THEN <<46, 48>> ELSE <<46, 53>>)
      [] cell.kind = "inf" -> W_inf
      [] cell.kind = "nan" -> W_nan

\* Series.fillna(t)
FillNa(cell, t) == IF cell.kind = "nan" THEN StrCell(t) ELSE cell

\* pd.to_numeric(., errors="coerce").fillna(0) gives inf for the cell
NonFinite(cell) == cell.kind = "inf"

\* pd.to_numeric(., errors="coerce").fillna(0) on a cell that is not inf,
\* in halves
ToNumeric(cell) ==
    CASE cell.kind = "int" -> 2 * cell.num
      [] cell.kind = "float" -> cell.num
      [] cell.kind = "nan" -> 0
      [] cell.kind = "str" -> 0

\* a quantity that keeps what astype(int) gives
QtyOfKept(cell) == Trunc(ToNumeric(cell))

\* load_single_region_sync: the qty of a row whose cell is finite, after
\* astype(int) and df.loc[df["qty"] <= 0, "qty"] = 1
QtyOf(cell) == IF Trunc(ToNumeric(cell)) <= 0 THEN 1 ELSE Trunc(ToNumeric(cell))

\* normalize_tech_type(value): None unless value is a str
TypeOf(cell) == IF cell.kind = "str" THEN normalize_tech_type(cell.text) ELSE None

\* normalize_status(value): the default label unless value is a str
StatusOf(cell) == IF cell.kind = "str" THEN normalize_status(cell.text) ELSE Unknown

\* normalize_tracker_flag(value)
TrackerOf(cell) == normalize_tracker_flag(PyStr(cell))


\* the columns load_single_region_sync adds before it looks for the tracker
\* column, in the order it adds them
AddedColumns == <<N_qty, N_region_name, N_type_normalized, N_status_normalized, N_city_district>>

\* keep
KEEP == {"region_name", "city_district", "type_normalized", "status_normalized",
         "qty", "has_tracker"}

\* pd.DataFrame(): no column, no row
NoFrame == [columns |-> {}, rows |-> <<>>]

\* if x_col:
Truthy(col) == col # None /\ col # <<>>

ColIndex(cols, name) == CHOOSE j \in 1..Len(cols) : cols[j] = name

IsIn(cols, name) == \E j \in 1..Len(cols) : cols[j] = name

\* lambda x: region_name if x == "Не указан" or str(x).strip() == "" else str(x).strip()
DistrictOf(cell, region) ==
    LET x == FillNa(cell, NotGiven)
    IN  IF x = StrCell(NotGiven) \/ Strip(PyStr(x)) = <<>> THEN region ELSE Strip(PyStr(x))

\* the columns load_single_region_sync resolves for the worksheet vals:
\* df.columns = [str(c).strip() for c in df.columns], find_column for the
\* status, type, region and qty roles, and, once the columns qty to
\* city_district have been added, for the tracker role
Resolved(vals) ==
    LET hdr == [j \in 1..Len(vals.headers) |-> Strip(vals.headers[j])]
    IN  [region_name |-> vals.region_name,
         columns |-> hdr,
         status_col |-> find_column(hdr, STATUS_ALIASES),
         type_col |-> find_column(hdr, TYPE_ALIASES),
         region_col |-> find_column(hdr, REGION_ALIASES),
         qty_col |-> find_column(hdr, QTY_ALIASES),
         tracker_col |->
            find_column(hdr \o SelectSeq(AddedColumns, LAMBDA n : ~IsIn(hdr, n)),
                        TRACKER_ALIASES)]

\* df[col] of a row, for a header col, once df[status_col] has been filled
RawCell(rc, row, col) ==
    IF Truthy(rc.status_col) /\ col = rc.status_col
    THEN FillNa(row[ColIndex(rc.columns, col)], <<>>)
    ELSE row[ColIndex(rc.columns, col)]

\* .astype(int) raises: a cell of the quantity column is not finite
QtyRaises(rc, rows) ==
    /\ Truthy(rc.qty_col)
    /\ \E i \in 1..Len(rows) : NonFinite(rows[i][ColIndex(rc.columns, rc.qty_col)])

\* df["qty"] of a row
RowQty(rc, row) ==
    IF Truthy(rc.qty_col) THEN QtyOf(row[ColIndex(rc.columns, rc.qty_col)]) ELSE 1

\* df["type_normalized"] of a row
RowType(rc, row) == TypeOf(row[ColIndex(rc.columns, rc.type_col)])

\* df["status_normalized"] of a row
RowStatus(rc, row) ==
    IF Truthy(rc.status_col) THEN StatusOf(RawCell(rc, row, rc.status_col)) ELSE Unknown

\* df["city_district"] of a row
RowDistrict(rc, row) ==
    IF Truthy(rc.region_col)
    THEN DistrictOf(RawCell(rc, row, rc.region_col), rc.region_name)
    ELSE rc.region_name

\* df[tracker_col] of a row: a column of the worksheet, or one of the
\* columns added
RowTrackerCell(rc, row) ==
    IF IsIn(rc.columns, rc.tracker_col) THEN RawCell(rc, row, rc.tracker_col)
    ELSE CASE rc.tracker_col = N_qty -> IntCell(RowQty(rc, row))
           [] rc.tracker_col = N_region_name -> StrCell(rc.region_name)
           [] rc.tracker_col = N_type_normalized -> StrCell(RowType(rc, row))
           [] rc.tracker_col = N_status_normalized -> StrCell(RowStatus(rc, row))
           [] rc.tracker_col = N_city_district -> StrCell(RowDistrict(rc, row))

\* df["has_tracker"] of a row
RowTracker(rc, row) ==
    IF Truthy(rc.tracker_col) THEN TrackerOf(RowTrackerCell(rc, row)) ELSE FALSE

\* the row of df[keep] for a row of the worksheet
RowRecord(rc, row) ==
    [region_name |-> rc.region_name,
     city_district |-> RowDistrict(rc, row),
     type_normalized |-> RowType(rc, row),
     status_normalized |-> RowStatus(rc, row),
     qty |-> RowQty(rc, row),
     has_tracker |-> RowTracker(rc, row)]

\* df["type_normalized"].notna() & (df["type_normalized"] != "")
RowKept(rc, row) == RowType(rc, row) # None /\ RowType(rc, row) # <<>>

\* the rows of the worksheet that pass the filter on the type, in order
KeptRows(rc, rows) == SelectSeq(rows, LAMBDA row : RowKept(rc, row))

\* load_single_region_sync from pd.DataFrame(values) on: the frame returned
\* for the worksheet vals; the first attempt and the retry run the same
\* steps, and an exception that is not a rate limit gives pd.DataFrame()
load_rows(vals) ==
    LET rc == Resolved(vals)
        kept == KeptRows(rc, vals.rows)
    IN  IF vals.rows = <<>> THEN NoFrame
        ELSE IF QtyRaises(rc, vals.rows) THEN NoFrame
        ELSE IF ~Truthy(rc.type_col) THEN NoFrame
        ELSE [columns |-> KEEP, rows |-> [i \in 1..Len(kept) |-> RowRecord(rc, kept[i])]]

\* the header rows considered: each header with the cell of a row that stands
\* under it
Layouts ==
    { \* the headers of the program's own sheets
      << [name |-> <<1058, 1077, 1093, 1085, 1080, 1082, 1072, 32, 1090, 1091, 1088, 1080>>, cell |-> "type"],
         [name |-> <<1061, 1086, 1083, 1072, 1090, 1080>>, cell |-> "status"],
         [name |-> <<1041, 1080, 1088, 1080, 1082, 1090, 1080, 1088, 1080, 1083, 1075, 1072, 1085, 32, 1096, 1072, 1093, 1072, 1088, 32, 1105, 1082, 1080, 32, 1090, 1091, 1084, 1072, 1085>>, cell |-> "district"],
         [name |-> <<1057, 1086, 1085, 1080>>, cell |-> "qty"],
         [name |-> <<71, 80, 83>>, cell |-> "tracker"] >>,  \* Техника тури | Холати | Бириктирилган шахар ёки туман | Сони | GPS
      \* type, status and district
      << [name |-> <<1058, 1077, 1093, 1085, 1080, 1082, 1072, 32, 1090, 1091, 1088, 1080>>, cell |-> "type"],
         [name |-> <<1061, 1086, 1083, 1072, 1090, 1080>>, cell |-> "status"],
         [name |-> <<1058, 1091, 1084, 1072, 1085>>, cell |-> "district"] >>,  \* Техника тури | Холати | Туман
      \* type and status
      << [name |-> <<1058, 1080, 1087, 32, 1090, 1077, 1093, 1085, 1080, 1082, 1080>>, cell |-> "type"],
         [name |-> <<1057, 1090, 1072, 1090, 1091, 1089>>, cell |-> "status"] >>,  \* Тип техники | Статус
      \* no type column
      << [name |-> <<1061, 1086, 1083, 1072, 1090, 1080>>, cell |-> "status"],
         [name |-> <<1058, 1091, 1084, 1072, 1085>>, cell |-> "district"] >>,  \* Холати | Туман
      \* no status column
      << [name |-> <<1058, 1077, 1093, 1085, 1080, 1082, 1072, 32, 1090, 1091, 1088, 1080>>, cell |-> "type"],
         [name |-> <<1058, 1091, 1084, 1072, 1085>>, cell |-> "district"],
         [name |-> <<1050, 1086, 1083, 45, 1074, 1086>>, cell |-> "qty"] >>,  \* Техника тури | Туман | Кол-во
      \* the type column alone
      << [name |-> <<32, 1042, 1080, 1076, 32, 1090, 1077, 1093, 1085, 1080, 1082, 1080, 32>>, cell |-> "type"] >>,  \*  Вид техники 
      \* no header that says anything
      << [name |-> <<8470>>, cell |-> "qty"],
         [name |-> <<1053, 1072, 1080, 1084, 1077, 1085, 1086, 1074, 1072, 1085, 1080, 1077>>, cell |-> "type"] >> }  \* № | Наименование

\* the rows considered, cell by cell: type, status, district, quantity, tracker
RowPool ==
    { \* 'экскаватор' | 'ишлайди' | '' | 3 | 'мавжуд'
      [type |-> StrCell(<<1101, 1082, 1089, 1082, 1072, 1074, 1072, 1090, 1086, 1088>>),
       status |-> StrCell(<<1080, 1096, 1083, 1072, 1081, 1076, 1080>>),
       district |-> StrCell(<<>>),
       qty |-> IntCell(3),
       tracker |-> StrCell(<<1084, 1072, 1074, 1078, 1091, 1076>>)],
      \* 'прицеп' | 'ремонт' | 'Ремонт цехи' | 0 | 'GPS мавжуд эмас'
      [type |-> StrCell(<<1087, 1088, 1080, 1094, 1077, 1087>>),
       status |-> StrCell(<<1088, 1077, 1084, 1086, 1085, 1090>>),
       district |-> StrCell(<<1056, 1077, 1084, 1086, 1085, 1090, 32, 1094, 1077, 1093, 1080>>),
       qty |-> IntCell(0),
       tracker |-> StrCell(<<71, 80, 83, 32, 1084, 1072, 1074, 1078, 1091, 1076, 32, 1101, 1084, 1072, 1089>>)],
      \* 'ekskavator' | 'ishlaydi' | '' | inf | 1
      [type |-> StrCell(<<101, 107, 115, 107, 97, 118, 97, 116, 111, 114>>),
       status |-> StrCell(<<105, 115, 104, 108, 97, 121, 100, 105>>),
       district |-> StrCell(<<>>),
       qty |-> InfCell,
       tracker |-> IntCell(1)],
      \* 'prizep' | 'remont' | NaN | 2.5 | ''
      [type |-> StrCell(<<112, 114, 105, 122, 101, 112>>),
       status |-> StrCell(<<114, 101, 109, 111, 110, 116>>),
       district |-> NaNCell,
       qty |-> HalvesCell(5),
       tracker |-> StrCell(<<>>)],
      \* 'Итого' | '' | '' | NaN | NaN
      [type |-> StrCell(<<1048, 1090, 1086, 1075, 1086>>),
       status |-> StrCell(<<>>),
       district |-> StrCell(<<>>),
       qty |-> NaNCell,
       tracker |-> NaNCell],
      \* 'КАМАЗ' | 'не исправен' | ' ' | -2 | 0
      [type |-> StrCell(<<1050, 1040, 1052, 1040, 1047>>),
       status |-> StrCell(<<1085, 1077, 32, 1080, 1089, 1087, 1088, 1072, 1074, 1077, 1085>>),
       district |-> StrCell(<<32>>),
       qty |-> IntCell(-2),
       tracker |-> IntCell(0)],
      \* '' | 'Ярокли' | 'Не указан' | 'x' | 5
      [type |-> StrCell(<<>>),
       status |-> StrCell(<<1071, 1088, 1086, 1082, 1083, 1080>>),
       district |-> StrCell(<<1053, 1077, 32, 1091, 1082, 1072, 1079, 1072, 1085>>),
       qty |-> StrCell(<<120>>),
       tracker |-> IntCell(5)],
      \* 7 | 4 | 12 | 1 | 'нет'
      [type |-> IntCell(7),
       status |-> IntCell(4),
       district |-> IntCell(12),
       qty |-> IntCell(1),
       tracker |-> StrCell(<<1085, 1077, 1090>>)] }

RegionR == <<82>>  \* R

\* the worksheet with the headers of layout and the rows r
Sheet(layout, r) ==
    [region_name |-> RegionR,
     headers |-> [j \in 1..Len(layout) |-> layout[j].name],
     rows |-> [i \in 1..Len(r) |-> [j \in 1..Len(layout) |-> r[i][layout[j].cell]]]]

SheetInputs == {Sheet(l, r) : l \in Layouts, r \in SeqsUpTo(RowPool, MaxRows)}

\* three excavators at work and two trailers under repair, under the headers of the program's own sheets, no quantity column, the words in Latin letters
ScenarioLatin ==
    [region_name |-> RegionR,
     \* Техника тури | Холати | Бириктирилган шахар ёки туман
     headers |-> <<<<1058, 1077, 1093, 1085, 1080, 1082, 1072, 32, 1090, 1091, 1088, 1080>>, <<1061, 1086, 1083, 1072, 1090, 1080>>, <<1041, 1080, 1088, 1080, 1082, 1090, 1080, 1088, 1080, 1083, 1075, 1072, 1085, 32, 1096, 1072, 1093, 1072, 1088, 32, 1105, 1082, 1080, 32, 1090, 1091, 1084, 1072, 1085>>>>,
     rows |->
       <<
          \* 'ekskavator' | 'ishlaydi' | ''
          <<StrCell(<<101, 107, 115, 107, 97, 118, 97, 116, 111, 114>>), StrCell(<<105, 115, 104, 108, 97, 121, 100, 105>>), StrCell(<<>>)>>,
          \* 'ekskavator' | 'ishlaydi' | ''
          <<StrCell(<<101, 107, 115, 107, 97, 118, 97, 116, 111, 114>>), StrCell(<<105, 115, 104, 108, 97, 121, 100, 105>>), StrCell(<<>>)>>,
          \* 'ekskavator' | 'ishlaydi' | ''
          <<StrCell(<<101, 107, 115, 107, 97, 118, 97, 116, 111, 114>>), StrCell(<<105, 115, 104, 108, 97, 121, 100, 105>>), StrCell(<<>>)>>,
          \* 'prizep' | 'remont' | ''
          <<StrCell(<<112, 114, 105, 122, 101, 112>>), StrCell(<<114, 101, 109, 111, 110, 116>>), StrCell(<<>>)>>,
          \* 'prizep' | 'remont' | ''
          <<StrCell(<<112, 114, 105, 122, 101, 112>>), StrCell(<<114, 101, 109, 111, 110, 116>>), StrCell(<<>>)>>
       >>]

\* the same rows, the words in Cyrillic letters
ScenarioCyrillic ==
    [region_name |-> RegionR,
     \* Техника тури | Холати | Бириктирилган шахар ёки туман
     headers |-> <<<<1058, 1077, 1093, 1085, 1080, 1082, 1072, 32, 1090, 1091, 1088, 1080>>, <<1061, 1086, 1083, 1072, 1090, 1080>>, <<1041, 1080, 1088, 1080, 1082, 1090, 1080, 1088, 1080, 1083, 1075, 1072, 1085, 32, 1096, 1072, 1093, 1072, 1088, 32, 1105, 1082, 1080, 32, 1090, 1091, 1084, 1072, 1085>>>>,
     rows |->
       <<
          \* 'экскаватор' | 'ишлайди' | ''
          <<StrCell(<<1101, 1082, 1089, 1082, 1072, 1074, 1072, 1090, 1086, 1088>>), StrCell(<<1080, 1096, 1083, 1072, 1081, 1076, 1080>>), StrCell(<<>>)>>,
          \* 'экскаватор' | 'ишлайди' | ''
          <<StrCell(<<1101, 1082, 1089, 1082, 1072, 1074, 1072, 1090, 1086, 1088>>), StrCell(<<1080, 1096, 1083, 1072, 1081, 1076, 1080>>), StrCell(<<>>)>>,
          \* 'экскаватор' | 'ишлайди' | ''
          <<StrCell(<<1101, 1082, 1089, 1082, 1072, 1074, 1072, 1090, 1086, 1088>>), StrCell(<<1080, 1096, 1083, 1072, 1081, 1076, 1080>>), StrCell(<<>>)>>,
          \* 'прицеп' | 'ремонт' | ''
          <<StrCell(<<1087, 1088, 1080, 1094, 1077, 1087>>), StrCell(<<1088, 1077, 1084, 1086, 1085, 1090>>), StrCell(<<>>)>>,
          \* 'прицеп' | 'ремонт' | ''
          <<StrCell(<<1087, 1088, 1080, 1094, 1077, 1087>>), StrCell(<<1088, 1077, 1084, 1086, 1085, 1090>>), StrCell(<<>>)>>
       >>]

ScenarioInputs == {ScenarioLatin, ScenarioCyrillic}

\* ------------------------------------------------------------ aggregation
\* A frame is the set of its column names and the sequence of its rows.

\* REGION_SHEETS.keys(): the name of each region
RegionNames == [r \in Regions |-> <<81 + r>>]

\* df.empty
Empty(df) == df.columns = {} \/ df.rows = <<>>

\* pd.DataFrame(columns=[...]): no row
NoRows == <<>>

\* a sum that counts the rows
CountRows(rows) == Len(rows)

RECURSIVE SumQty(_)
\* ["qty"].sum()
SumQty(rows) == IF rows = <<>> THEN 0 ELSE Head(rows).qty + SumQty(Tail(rows))

\* the rows whose column key holds k
RowsWith(rows, key, k) == SelectSeq(rows, LAMBDA r : r[key] = k)

\* .groupby(key, as_index=False).agg(qty=("qty", "sum")): a group for each
\* value of the column that is not missing, with the sum of its qty
GroupSum(rows, key) ==
    [k \in {rows[i][key] : i \in 1..Len(rows)} \ {None} |-> SumQty(RowsWith(rows, key, k))]

\* the orders in which the members of S can stand
Orders(S) ==
    {s \in [1..Cardinality(S) -> S] : \A i, j \in 1..Cardinality(S) : s[i] = s[j] => i = j}

\* .sort_values("qty", ascending=False): the frames it can give for the
\* groups g; the order of groups of equal qty is left to the sort
Ranked(g) ==
    {[i \in 1..Len(s) |-> [key |-> s[i], qty |-> g[s[i]]]] :
        s \in {t \in Orders(DOMAIN g) : \A i \in 1..(Len(t) - 1) : g[t[i]] >= g[t[i + 1]]}}

\* df[df["type_normalized"].notna()]
NotNaType(rows) == SelectSeq(rows, LAMBDA r : r.type_normalized # None)

count_type_per_region(df_all, tech_type) ==
    IF Empty(df_all) THEN {NoRows}
    ELSE IF normalize_tech_type(tech_type) \in {None, <<>>} THEN {NoRows}
    ELSE IF RowsWith(df_all.rows, "type_normalized", normalize_tech_type(tech_type)) = <<>>
    THEN {NoRows}
    ELSE Ranked(GroupSum(RowsWith(df_all.rows, "type_normalized",
                                  normalize_tech_type(tech_type)), "region_name"))

\* mask = (df_all["region_name"] == region) & (df_all["type_normalized"] == normalized_type)
TypeRegionRows(rows, type, region) ==
    SelectSeq(rows, LAMBDA r : r.region_name = region /\ r.type_normalized = type)

get_status_distribution_for_type_region(df_all, tech_type, region) ==
    IF Empty(df_all) THEN {NoRows}
    ELSE IF normalize_tech_type(tech_type) \in {None, <<>>} THEN {NoRows}
    ELSE IF TypeRegionRows(df_all.rows, normalize_tech_type(tech_type), region) = <<>>
    THEN {NoRows}
    ELSE Ranked(GroupSum(TypeRegionRows(df_all.rows, normalize_tech_type(tech_type), region),
                         "status_normalized"))

\* status_counts of one city: the states whose qty is positive
StatusCounts(city_data) ==
    [st \in {l \in StatusLabels : SumQty(RowsWith(city_data, "status_normalized", l)) > 0} |->
        SumQty(RowsWith(city_data, "status_normalized", st))]

\* str(city) if str(city).strip() else "Не указан"
CityKey(city) == IF Strip(city) # <<>> THEN city ELSE NotGiven

RECURSIVE Unique(_)
\* Series.unique(): the values in the order of their first row
Unique(s) ==
    IF s = <<>> THEN <<>>
    ELSE LET u == Unique(SubSeq(s, 1, Len(s) - 1))
         IN  IF \E i \in 1..Len(u) : u[i] = s[Len(s)] THEN u ELSE Append(u, s[Len(s)])

\* the cities of filtered that get an entry under the key k, in the order
\* the loop meets them: those whose total is positive
CitiesOf(filtered, k) ==
    SelectSeq(Unique([i \in 1..Len(filtered) |-> filtered[i].city_district]),
              LAMBDA c : CityKey(c) = k
                         /\ DOMAIN StatusCounts(RowsWith(filtered, "city_district", c)) # {})

get_detailed_city_status(df_all, tech_type, region) ==
    IF Empty(df_all) THEN <<>>
    ELSE IF normalize_tech_type(tech_type) \in {None, <<>>} THEN <<>>
    ELSE LET filtered == TypeRegionRows(df_all.rows, normalize_tech_type(tech_type), region)
         IN  [k \in {CityKey(filtered[i].city_district) : i \in
                        {n \in 1..Len(filtered) :
                            CitiesOf(filtered, CityKey(filtered[n].city_district)) # <<>>}} |->
                 StatusCounts(RowsWith(filtered, "city_district",
                                       CitiesOf(filtered, k)[Len(CitiesOf(filtered, k))]))]

\* the text a stands before the text b in the order of their characters
TextLess(a, b) ==
    \E i \in 1..(Len(a) + 1) :
        /\ i <= Len(b)
        /\ \A j \in 1..(i - 1) : a[j] = b[j]
        /\ (i = Len(a) + 1 \/ a[i] < b[i])

\* the keys of city_status in the order the loop first sets them
CityKeys(df_all, tech_type, region) ==
    IF Empty(df_all) THEN <<>>
    ELSE IF normalize_tech_type(tech_type) \in {None, <<>>} THEN <<>>
    ELSE LET filtered == TypeRegionRows(df_all.rows, normalize_tech_type(tech_type), region)
             cities == SelectSeq(Unique([i \in 1..Len(filtered) |-> filtered[i].city_district]),
                                 LAMBDA c : DOMAIN StatusCounts(RowsWith(filtered, "city_district", c)) # {})
         IN  Unique([i \in 1..Len(cities) |-> CityKey(cities[i])])

\* cnt.get(st, 0)
Get(cnt, st) == IF st \in DOMAIN cnt THEN cnt[st] ELSE 0

\* fmt_detailed_city_status: (city, total, g, y, r, k)
CityRow(city, cnt) ==
    [city |-> city,
     total |-> Get(cnt, Operational) + Get(cnt, NeedsRepair)
                + Get(cnt, NonOperational) + Get(cnt, Unknown),
     g |-> Get(cnt, Operational), y |-> Get(cnt, NeedsRepair),
     r |-> Get(cnt, NonOperational), k |-> Get(cnt, Unknown)]

\* an order of the rows by y first, then r, then the name
SortKeyLessRepairFirst(a, b) ==
    \/ a.y > b.y
    \/ a.y = b.y /\ a.r > b.r
    \/ a.y = b.y /\ a.r = b.r /\ TextLess(LowerStr(a.city), LowerStr(b.city))

\* key=lambda t: (-t[4], -t[3], t[0].lower()): the key of a is less than
\* the key of b
SortKeyLess(a, b) ==
    \/ a.r > b.r
    \/ a.r = b.r /\ a.y > b.y
    \/ a.r = b.r /\ a.y = b.y /\ TextLess(LowerStr(a.city), LowerStr(b.city))

\* rows.sort(key=...): the rows in the order of their keys, rows of equal
\* key in the order they had
SortRows(rows) ==
    LET s == CHOOSE t \in Orders(1..Len(rows)) :
                \A i, j \in 1..Len(rows) :
                    i < j => /\ ~SortKeyLess(rows[t[j]], rows[t[i]])
                             /\ (~SortKeyLess(rows[t[i]], rows[t[j]]) => t[i] < t[j])
    IN  [i \in 1..Len(rows) |-> rows[s[i]]]

\* the parts of a status line: the mark and the count of each of g, y, r
\* that is positive
StatusParts(row) ==
    (IF row.g > 0 THEN <<[mark |-> 129001, n |-> row.g]>> ELSE <<>>)       \* 🟩
        \o (IF row.y > 0 THEN <<[mark |-> 129000, n |-> row.y]>> ELSE <<>>) \* 🟨
        \o (IF row.r > 0 THEN <<[mark |-> 128997, n |-> row.r]>> ELSE <<>>) \* 🟥

\* fmt_detailed_city_status of the dict with the entries city_status_data
\* under the keys keys, in their order: the lines of the text, each the
\* city, its total and the parts of its status line
fmt_detailed_city_status(city_status_data, keys) ==
    LET rows == SortRows([i \in 1..Len(keys) |-> CityRow(keys[i], city_status_data[keys[i]])])
    IN  [i \in 1..Len(rows) |->
            [city |-> rows[i].city, total |-> rows[i].total, parts |-> StatusParts(rows[i])]]

all_types_summary(df) ==
    IF Empty(df) THEN {NoRows}
    ELSE IF NotNaType(df.rows) = <<>> THEN {NoRows}
    ELSE Ranked(GroupSum(NotNaType(df.rows), "type_normalized"))

get_region_counts(df_all) ==
    IF Empty(df_all) THEN [r \in Regions |-> 0]
    ELSE [r \in Regions |-> SumQty(RowsWith(NotNaType(df_all.rows), "region_name", RegionNames[r]))]

\* df.loc[mask_equipment] and df.loc[~mask_equipment]
EquipmentRows(rows) == SelectSeq(rows, LAMBDA r : is_equipment_type(r.type_normalized))
AutoRows(rows) == SelectSeq(rows, LAMBDA r : ~is_equipment_type(r.type_normalized))

\* auto_qty, equip_qty, total
Categories(rows) ==
    <<SumQty(AutoRows(rows)), SumQty(EquipmentRows(rows)),
      SumQty(AutoRows(rows)) + SumQty(EquipmentRows(rows))>>

\* what a call gives: the value it returns, or the exception it raises
Returns(v) == [raises |-> "", value |-> v]
Raises(e) == [raises |-> e, value |-> <<>>]

summarize_region_categories(df_region) ==
    IF Empty(df_region) THEN Returns(<<0, 0, 0>>)
    ELSE Returns(Categories(df_region.rows))

summarize_district_categories(df_region, district) ==
    IF "city_district" \notin df_region.columns THEN Raises("KeyError")
    ELSE IF RowsWith(df_region.rows, "city_district", district) = <<>> THEN Returns(<<0, 0, 0>>)
    ELSE Returns(Categories(RowsWith(df_region.rows, "city_district", district)))

summarize_republic_categories(df_all) ==
    IF Empty(df_all) \/ "type_normalized" \notin df_all.columns THEN Returns(<<0, 0, 0>>)
    ELSE Returns(Categories(df_all.rows))

get_status_distribution_any(df_subset) ==
    IF Empty(df_subset) \/ "status_normalized" \notin df_subset.columns THEN {NoRows}
    ELSE Ranked(GroupSum(df_subset.rows, "status_normalized"))

count_trackers_by_region(df_all) ==
    IF Empty(df_all) \/ "has_tracker" \notin df_all.columns THEN {NoRows}
    ELSE IF SelectSeq(df_all.rows, LAMBDA r : r.has_tracker) = <<>> THEN {NoRows}
    ELSE Ranked(GroupSum(SelectSeq(df_all.rows, LAMBDA r : r.has_tracker), "region_name"))

\* create_districts_keyboard: the buttons it can make for a region's frame,
\* each the name and the quantity of a district
create_districts_keyboard(df_region) ==
    IF Empty(df_region) THEN {NoRows}
    ELSE {[i \in 1..Len(s) |-> [key |-> CityKey(s[i].key), qty |-> s[i].qty]] :
            s \in Ranked(GroupSum(df_region.rows, "city_district"))}

\* auto_df = df[~mask_equipment].copy(); equip_df = df[mask_equipment].copy()
AutoFrame(df) == [columns |-> df.columns, rows |-> AutoRows(df.rows)]
EquipmentFrame(df) == [columns |-> df.columns, rows |-> EquipmentRows(df.rows)]

\* what the views show for the frame df and the query q
Views(df, q) ==
    {[query |-> q,
      per_region |-> a,
      all_types |-> b,
      statuses |-> c,
      trackers |-> d,
      status_auto |-> e,
      status_equip |-> f,
      districts |-> g,
      region_counts |-> get_region_counts(df),
      city_status |-> get_detailed_city_status(df, q.tech_type, q.region),
      region_categories |-> summarize_region_categories(df),
      district_categories |-> summarize_district_categories(df, q.district),
      republic_categories |-> summarize_republic_categories(df)] :
        a \in count_type_per_region(df, q.tech_type),
        b \in all_types_summary(df),
        c \in get_status_distribution_any(df),
        d \in count_trackers_by_region(df),
        e \in get_status_distribution_any(AutoFrame(df)),
        f \in get_status_distribution_any(EquipmentFrame(df)),
        g \in create_districts_keyboard(df)}

W_Excavator == <<1069, 1082, 1089, 1082, 1072, 1074, 1072, 1090, 1086, 1088>>  \* Экскаватор
W_Trailer == <<1055, 1088, 1080, 1094, 1077, 1087>>  \* Прицеп
W_Centre == <<1052, 1072, 1088, 1082, 1072, 1079>>  \* Марказ

\* the records considered: rows of frames the row pipeline gives
RecordPool ==
    { [region_name |-> RegionNames[1], city_district |-> RegionNames[1],
       type_normalized |-> W_Excavator, status_normalized |-> Operational,
       qty |-> 3, has_tracker |-> TRUE],
      [region_name |-> RegionNames[1], city_district |-> W_Centre,
       type_normalized |-> W_Trailer, status_normalized |-> NeedsRepair,
       qty |-> 1, has_tracker |-> FALSE],
      [region_name |-> RegionNames[2], city_district |-> RegionNames[2],
       type_normalized |-> W_Excavator, status_normalized |-> NonOperational,
       qty |-> 2, has_tracker |-> TRUE],
      [region_name |-> RegionNames[1], city_district |-> RegionNames[1],
       type_normalized |-> W_Excavator, status_normalized |-> Unknown,
       qty |-> 1, has_tracker |-> FALSE],
      [region_name |-> RegionNames[2], city_district |-> W_Centre,
       type_normalized |-> W_Trailer, status_normalized |-> Operational,
       qty |-> 2, has_tracker |-> FALSE] }

\* the frames considered: pd.DataFrame(), and the frames of the six columns
\* with up to MaxRows rows
FrameInputs ==
    {NoFrame} \cup {[columns |-> KEEP, rows |-> r] : r \in SeqsUpTo(RecordPool, MaxRows)}

\* the queries considered: a type as the user names it, a region, a district
Queries ==
    {[tech_type |-> t, region |-> RegionNames[1], district |-> d] :
        t \in {LowerStr(W_Excavator), LowerStr(W_Trailer)}, d \in {RegionNames[1], W_Centre}}

\* ------------------------------------------------------------- scheduler

EmptyDf == <<>>

NoTask == [pc |-> "none", wake |-> 0, tries |-> 0, o1 |-> "", df |-> EmptyDf]
NoCall == [pc |-> "idle", key |-> ALL, force |-> FALSE, start |-> 0, ep |-> 0,
           fetched |-> FALSE, result |-> EmptyDf]

\* rows of region r as read by one upstream call, after the row pipeline
Rows(r, try) == <<[region_name |-> r, try |-> try]>>

InCache(key) == CACHE[key] # <<>>

\* a gather that gives up the whole refresh when one source has no rows
ConcatAllOrNothing(t, c, r) ==
    IF \E q \in Regions : t[c][q].pc = "done" /\ t[c][q].df = EmptyDf
    THEN EmptyDf
    ELSE [i \in 1..Cardinality({q \in Regions : t[c][q].pc = "done"}) |->
            t[c][CHOOSE q \in Regions :
                    /\ t[c][q].pc = "done"
                    /\ Cardinality({p \in Regions : p < q /\ t[c][p].pc = "done"}) = i - 1].df[1]]

RECURSIVE Concat(_, _, _)
\* pd.concat of the non-empty frames of call c, in REGION_SHEETS order
Concat(t, c, r) ==
    IF r > NumRegions THEN EmptyDf
    ELSE (IF t[c][r].pc = "done" THEN t[c][r].df ELSE EmptyDf) \o Concat(t, c, r + 1)

\* async_safe_api_call up to its await: the task record after the gate check
Gate(tk) ==
    LET elapsed == now - LAST_API_CALL IN
    IF elapsed < API_DELAY
    THEN [tk EXCEPT !.pc = "sleep", !.wake = now + (API_DELAY - elapsed)]
    ELSE [tk EXCEPT !.pc = "thread"]

GateLast == IF now - LAST_API_CALL < API_DELAY THEN LAST_API_CALL ELSE now

\* the worker thread of region r is started at once when the gate is passed;
\* it calls upstream only when the region has a sheet id
GateUp(r) ==
    IF now - LAST_API_CALL < API_DELAY \/ r \notin REGION_SHEETS THEN lastUp ELSE now

InitCommon ==
    /\ now = 0
    /\ CACHE = [k \in Keys |-> <<>>]
    /\ LAST_API_CALL = DATETIME_MIN
    /\ sem = PARALLEL_LIMIT
    /\ call = [c \in Calls |-> NoCall]
    /\ task = [c \in Calls |-> [r \in Regions |-> NoTask]]
    /\ lastUp = DATETIME_MIN
    /\ clears = 0

\* no status cell under consideration
InitNoStatus == status_cell = <<>> /\ status_normalized = <<>>

\* no frame under consideration
InitNoColumns == df_columns = <<>> /\ alias_list = <<>> /\ found = {}

\* no tracker cell under consideration
InitNoTracker == tracker_cell = None /\ has_tracker = {}

\* no worksheet and no frame under consideration
InitNoFrame == values = {} /\ frame = {} /\ views = {}

\* no frame object yet
InitNoPipe == InitNoFrame /\ heap = [objs |-> <<>>, returned |-> {}]

\* no text given to normalize_tech_type
InitNoType == type_cell = <<>> /\ type_found = {}

\* no event has reached the middleware
InitNoRate == users = <<>> /\ monotonic = 0 /\ handled = <<>>

\* nothing but the scheduler at work
InitNoText == InitNoStatus /\ InitNoColumns /\ InitNoTracker /\ InitNoType /\ InitNoRate /\ InitNoPipe

\* no sheet id configured; the users ask for "ALL" and for a region
InitNone ==
    /\ REGION_SHEETS = {}
    /\ todo = [k \in Keys |-> IF k \in {ALL, 1} THEN MaxCalls ELSE 0]
    /\ env = [instants |-> Times, clears |-> MaxClears]

\* one sheet id configured; the users ask for that region over more than one
\* TTL and clear the cache
InitCache ==
    /\ REGION_SHEETS = {1}
    /\ todo = [k \in Keys |-> IF k = 1 THEN MaxCalls ELSE 0]
    /\ env = [instants |-> Times, clears |-> MaxClears]

\* two sheet ids configured; one "ALL" refresh
InitPair ==
    /\ REGION_SHEETS = {1, 2}
    /\ todo = [k \in Keys |-> IF k = ALL THEN 1 ELSE 0]
    /\ env = [instants |-> PacingTimes, clears |-> MaxClears]

\* every sheet id but the last configured; one "ALL" refresh next to a
\* request for the last region, within the first seconds
InitFan ==
    /\ REGION_SHEETS = 1..(NumRegions - 1)
    /\ todo = [k \in Keys |-> IF k \in {ALL, NumRegions} THEN 1 ELSE 0]
    /\ env = [instants |-> FanTimes, clears |-> 0]

Init == InitCommon /\ InitNoText /\ (InitNone \/ InitCache \/ InitPair \/ InitFan)

\* a semaphore that never blocks
SemFreeAlways == TRUE

\* asyncio.Semaphore: a permit is free
SemFree == sem > 0

NextCall == CHOOSE c \in Calls \cup {MaxCalls + 1} :
                /\ c \in Calls => call[c].pc = "idle"
                /\ \A d \in Calls : d < c => call[d].pc # "idle"

\* an entry that still counts at the instant of its expiry
FreshAtExpiry(key, force) == ~force /\ InCache(key) /\ now <= CACHE[key][1].exp

\* not force_refresh and key in CACHE and now < CACHE[key][1]
Fresh(key, force) == ~force /\ InCache(key) /\ now < CACHE[key][1].exp

NewCall(key, force, pc, fetched, result) ==
    [pc |-> pc, key |-> key, force |-> force, start |-> now, ep |-> clears,
     fetched |-> fetched, result |-> result]

\* get_df_async, cache hit
GetDfHit(key, force) ==
    LET c == NextCall IN
    /\ c \in Calls /\ todo[key] > 0
    /\ Fresh(key, force)
    /\ call' = [call EXCEPT ![c] = NewCall(key, force, "done", FALSE, CACHE[key][1].df)]
    /\ todo' = [todo EXCEPT ![key] = @ - 1]
    /\ UNCHANGED <<now, REGION_SHEETS, CACHE, LAST_API_CALL, sem, task,
                   lastUp, clears, env, textVars>>

\* get_df_async, cache miss, one region: runs on synchronously into
\* load_single_region_async up to its first suspension
GetDfRegion(key, force) ==
    LET c == NextCall IN
    /\ c \in Calls /\ todo[key] > 0
    /\ key # ALL
    /\ ~Fresh(key, force)
    /\ call' = [call EXCEPT ![c] = NewCall(key, force, "await", TRUE, EmptyDf)]
    /\ todo' = [todo EXCEPT ![key] = @ - 1]
    /\ IF SemFree
       THEN /\ sem' = sem - 1
            /\ task' = [task EXCEPT ![c][key] = Gate(NoTask)]
            /\ LAST_API_CALL' = GateLast
            /\ lastUp' = GateUp(key)
       ELSE /\ task' = [task EXCEPT ![c][key] = [NoTask EXCEPT !.pc = "waitSem"]]
            /\ UNCHANGED <<sem, LAST_API_CALL, lastUp>>
    /\ UNCHANGED <<now, REGION_SHEETS, CACHE, clears, env, textVars>>

\* get_df_async, cache miss, "ALL": load_all_regions_async creates one task
\* per configured region and awaits asyncio.gather
GetDfAll(force) ==
    LET c == NextCall IN
    /\ c \in Calls /\ todo[ALL] > 0
    /\ ~Fresh(ALL, force)
    /\ todo' = [todo EXCEPT ![ALL] = @ - 1]
    /\ IF REGION_SHEETS = {}
       THEN /\ call' = [call EXCEPT ![c] = NewCall(ALL, force, "done", TRUE, EmptyDf)]
            /\ CACHE' = [CACHE EXCEPT ![ALL] = <<[df |-> EmptyDf, exp |-> now + CACHE_TTL]>>]
            /\ UNCHANGED task
       ELSE /\ call' = [call EXCEPT ![c] = NewCall(ALL, force, "await", TRUE, EmptyDf)]
            /\ task' = [task EXCEPT ![c] = [r \in Regions |->
                          IF r \in REGION_SHEETS
                          THEN [NoTask EXCEPT !.pc = "waitSem"] ELSE NoTask]]
            /\ UNCHANGED CACHE
    /\ UNCHANGED <<now, REGION_SHEETS, LAST_API_CALL, sem, lastUp, clears, env, textVars>>

\* load_single_region_async: "async with sem" granted, then the pacing gate
Acquire(c, r) ==
    /\ task[c][r].pc = "waitSem"
    /\ SemFree
    /\ sem' = sem - 1
    /\ task' = [task EXCEPT ![c][r] = Gate(@)]
    /\ LAST_API_CALL' = GateLast
    /\ lastUp' = GateUp(r)
    /\ UNCHANGED <<now, REGION_SHEETS, CACHE, call, clears, todo, env, textVars>>

\* async_safe_api_call after its asyncio.sleep
Wake(c, r) ==
    /\ task[c][r].pc = "sleep"
    /\ now >= task[c][r].wake
    /\ LAST_API_CALL' = now
    /\ lastUp' = IF r \in REGION_SHEETS THEN now ELSE lastUp
    /\ task' = [task EXCEPT ![c][r].pc = "thread", ![c][r].wake = 0]
    /\ UNCHANGED <<now, REGION_SHEETS, CACHE, sem, call, clears, todo, env, textVars>>

\* a store whose expiry counts from the end of the fetch
FinishLateExpiry(c, r, tries, o1, df) ==
    /\ sem' = sem + 1
    /\ task' = [task EXCEPT ![c][r] = [pc |-> "done", wake |-> 0, tries |-> tries,
                                       o1 |-> o1, df |-> df]]
    /\ IF call[c].key = ALL
       THEN UNCHANGED <<call, CACHE>>
       ELSE /\ CACHE' = [CACHE EXCEPT ![r] = <<[df |-> df, exp |-> now + CACHE_TTL]>>]
            /\ call' = [call EXCEPT ![c].pc = "done", ![c].result = df]

\* load_single_region_async returns df: the semaphore is released; a
\* one-region get_df_async goes straight on to store and return the frame
Finish(c, r, tries, o1, df) ==
    /\ sem' = sem + 1
    /\ task' = [task EXCEPT ![c][r] = [pc |-> "done", wake |-> 0, tries |-> tries,
                                       o1 |-> o1, df |-> df]]
    /\ IF call[c].key = ALL
       THEN UNCHANGED <<call, CACHE>>
       ELSE /\ CACHE' = [CACHE EXCEPT ![r] = <<[df |-> df, exp |-> call[c].start + CACHE_TTL]>>]
            /\ call' = [call EXCEPT ![c].pc = "done", ![c].result = df]

\* load_single_region_sync: no sheet id
NoSheet(c, r) ==
    /\ task[c][r].pc = "thread"
    /\ r \notin REGION_SHEETS
    /\ Finish(c, r, 0, "", EmptyDf)
    /\ UNCHANGED <<now, REGION_SHEETS, LAST_API_CALL, lastUp, clears, todo, env, textVars>>

\* load_single_region_sync: first upstream attempt
FirstAttempt(c, r, o) ==
    /\ task[c][r].pc = "thread"
    /\ r \in REGION_SHEETS
    /\ IF o = "429"
       THEN /\ task' = [task EXCEPT ![c][r] =
                         [@ EXCEPT !.pc = "cooldown", !.wake = now + COOLDOWN, !.tries = 1,
                                    !.o1 = o]]
            /\ UNCHANGED <<sem, call, CACHE>>
       ELSE Finish(c, r, 1, o, IF o = "ok" THEN Rows(r, 1) ELSE EmptyDf)
    /\ UNCHANGED <<now, REGION_SHEETS, LAST_API_CALL, lastUp, clears, todo, env, textVars>>

\* a retry loop that cools down again on every further 429
RetryAgain(c, r, o) ==
    /\ task[c][r].pc = "cooldown"
    /\ now >= task[c][r].wake
    /\ lastUp' = now
    /\ IF o = "429"
       THEN /\ task' = [task EXCEPT ![c][r] =
                         [@ EXCEPT !.wake = now + COOLDOWN, !.tries = @ + 1]]
            /\ UNCHANGED <<sem, call, CACHE>>
       ELSE Finish(c, r, task[c][r].tries + 1, task[c][r].o1,
                   IF o = "ok" THEN Rows(r, 2) ELSE EmptyDf)
    /\ UNCHANGED <<now, REGION_SHEETS, LAST_API_CALL, clears, todo, env, textVars>>

\* load_single_region_sync: the attempt after time.sleep(10)
Retry(c, r, o) ==
    /\ task[c][r].pc = "cooldown"
    /\ now >= task[c][r].wake
    /\ lastUp' = now
    /\ Finish(c, r, 2, task[c][r].o1, IF o = "ok" THEN Rows(r, 2) ELSE EmptyDf)
    /\ UNCHANGED <<now, REGION_SHEETS, LAST_API_CALL, clears, todo, env, textVars>>

\* asyncio.gather has every result: load_all_regions_async concatenates the
\* non-empty frames, get_df_async stores and returns the combined frame
GatherDone(c) ==
    /\ call[c].pc = "await"
    /\ call[c].key = ALL
    /\ \A r \in Regions : task[c][r].pc \in {"none", "done"}
    /\ LET df == Concat(task, c, 1) IN
       /\ CACHE' = [CACHE EXCEPT ![ALL] = <<[df |-> df, exp |-> call[c].start + CACHE_TTL]>>]
       /\ call' = [call EXCEPT ![c].pc = "done", ![c].result = df]
    /\ UNCHANGED <<now, REGION_SHEETS, LAST_API_CALL, sem, task, lastUp,
                   clears, todo, env, textVars>>

\* clear_cache_cmd / clear_cache_command
ClearCache ==
    /\ clears < env.clears
    /\ clears' = clears + 1
    /\ CACHE' = [k \in Keys |-> <<>>]
    /\ UNCHANGED <<now, REGION_SHEETS, LAST_API_CALL, sem, call, task,
                   lastUp, todo, env, textVars>>

\* the clock advances
Tick(t) ==
    /\ t > now
    /\ now' = t
    /\ UNCHANGED <<REGION_SHEETS, CACHE, LAST_API_CALL, sem, call, task, lastUp,
                   clears, todo, env, textVars>>

Next ==
    \/ \E k \in Keys, f \in BOOLEAN : GetDfHit(k, f)
    \/ \E k \in Keys, f \in BOOLEAN : GetDfRegion(k, f)
    \/ \E f \in BOOLEAN : GetDfAll(f)
    \/ \E c \in Calls, r \in Regions : Acquire(c, r)
    \/ \E c \in Calls, r \in Regions : Wake(c, r)
    \/ \E c \in Calls, r \in Regions : NoSheet(c, r)
    \/ \E c \in Calls, r \in Regions, o \in Outcomes : FirstAttempt(c, r, o)
    \/ \E c \in Calls, r \in Regions, o \in Outcomes : Retry(c, r, o)
    \/ \E c \in Calls : GatherDone(c)
    \/ ClearCache
    \/ \E t \in env.instants : Tick(t)

Spec == Init /\ [][Next]_vars

\* the scheduler at rest
InitIdle ==
    /\ InitCommon
    /\ REGION_SHEETS = {}
    /\ todo = [k \in Keys |-> 0]
    /\ env = [instants |-> {}, clears |-> 0]

\* ------------------------------------------------------- status pipeline
\* a worksheet cell of the status column, nothing else going on
InitStatus ==
    /\ InitIdle /\ InitNoColumns /\ InitNoTracker /\ InitNoType /\ InitNoRate /\ InitNoPipe
    /\ status_cell \in StatusInputs
    /\ status_normalized = <<>>

\* load_single_region_sync: df["status_normalized"] = df[status_col].apply(normalize_status)
ApplyNormalizeStatus ==
    /\ status_normalized = <<>>
    /\ status_normalized' = normalize_status(status_cell)
    /\ UNCHANGED <<schedVars, status_cell, colVars, trackerVars, typeVars, rateVars, pipeVars>>

NextStatus == ApplyNormalizeStatus

SpecStatus == InitStatus /\ [][NextStatus]_vars

\* ------------------------------------------------------- status lexicon
\* the members of a sequence
Range(s) == {s[i] : i \in 1..Len(s)}

\* the pieces of the cells considered: every icon token, every phrase of the
\* "does not work" test, неисправен, and one phrase of each other test
LexiconPieces ==
    Range(IconOperational) \cup Range(IconNonOperational) \cup Range(IconNeedsRepair)
        \cup Range(NonOperationalWords)
        \cup {W_ne \o W_ispraven, OperationalWords[3], W_remont}

\* the pieces of ws, a space between two of them
RECURSIVE JoinSp(_)
JoinSp(ws) ==
    IF ws = <<>> THEN <<>>
    ELSE IF Len(ws) = 1 THEN ws[1]
    ELSE ws[1] \o <<32>> \o JoinSp(Tail(ws))

LexiconInputs == {JoinSp(ws) : ws \in SeqsUpTo(LexiconPieces, MaxPhrases)}

\* a status cell made of icons and phrases, nothing else going on
InitLexicon ==
    /\ InitIdle /\ InitNoColumns /\ InitNoTracker /\ InitNoType /\ InitNoRate /\ InitNoPipe
    /\ status_cell \in LexiconInputs
    /\ status_normalized = <<>>

SpecLexicon == InitLexicon /\ [][NextStatus]_vars

\* ------------------------------------------------------- type texts
\* the texts considered: every key and every label of type_mapping, and
\* some other cells of a type column
TypePieces ==
    {type_mapping[i].key : i \in 1..Len(type_mapping)}
        \cup {type_mapping[i].label : i \in 1..Len(type_mapping)}
        \cup {<<112, 114, 105, 122, 101, 112>>,  \* prizep
              <<1050, 1088, 1072, 1085, 33>>,  \* Кран!
              <<1050, 1040, 1052, 1040, 1047>>,  \* КАМАЗ
              <<1048, 1090, 1086, 1075, 1086>>,  \* Итого
              <<110, 97, 110>>,  \* nan
              <<32>>}

\* what a cell can hold beside the name of the type
TypeWords ==
    {<<1085, 1086, 1074, 1099, 1081>>,       \* новый
     <<40, 50, 32, 1096, 1090, 46, 41>>}  \* (2 шт.)

TypeInputs ==
    {JoinSp(<<p>> \o ws) : p \in TypePieces, ws \in SeqsUpTo(TypeWords, MaxPhrases - 1)}

\* a cell of the type column, nothing else going on
InitType ==
    /\ InitIdle /\ InitNoStatus /\ InitNoColumns /\ InitNoTracker /\ InitNoPipe
    /\ InitNoRate
    /\ type_cell \in TypeInputs
    /\ type_found = {}

\* load_single_region_sync: df["type_normalized"] = df[type_col].apply(normalize_tech_type)
ApplyNormalizeTechType ==
    /\ type_found = {}
    /\ type_found' = {normalize_tech_type(type_cell)}
    /\ UNCHANGED <<schedVars, statusVars, colVars, trackerVars, pipeVars, type_cell, rateVars>>

NextType == ApplyNormalizeTechType

SpecType == InitType /\ [][NextType]_vars

\* ------------------------------------------------------- column lookup
\* the headers of a worksheet and an alias list, nothing else going on
InitColumns ==
    /\ InitIdle /\ InitNoStatus /\ InitNoTracker /\ InitNoType /\ InitNoRate /\ InitNoPipe
    /\ df_columns \in ColumnInputs
    /\ alias_list \in AliasInputs
    /\ found = {}

\* load_single_region_sync: x_col = find_column(df, X_ALIASES)
ApplyFindColumn ==
    /\ found = {}
    /\ found' = {find_column(df_columns, alias_list)}
    /\ UNCHANGED <<schedVars, statusVars, df_columns, alias_list, trackerVars, typeVars, rateVars, pipeVars>>

NextColumns == ApplyFindColumn

SpecColumns == InitColumns /\ [][NextColumns]_vars

\* --------------------------------------------------------- tracker cell
\* a worksheet cell of the tracker column, nothing else going on
InitTracker ==
    /\ InitIdle /\ InitNoStatus /\ InitNoColumns /\ InitNoType /\ InitNoRate /\ InitNoPipe
    /\ tracker_cell \in TrackerInputs
    /\ has_tracker = {}

\* load_single_region_sync: df["has_tracker"] = df[tracker_col].apply(normalize_tracker_flag)
ApplyTrackerFlag ==
    /\ has_tracker = {}
    /\ has_tracker' = {normalize_tracker_flag(tracker_cell)}
    /\ UNCHANGED <<schedVars, statusVars, colVars, tracker_cell, typeVars, rateVars, pipeVars>>

NextTracker == ApplyTrackerFlag

SpecTracker == InitTracker /\ [][NextTracker]_vars

\* --------------------------------------------------------- row pipeline
\* a worksheet read for a region, nothing else going on
InitPipeline ==
    /\ InitIdle /\ InitNoStatus /\ InitNoColumns /\ InitNoTracker /\ InitNoType /\ InitNoRate
    /\ values \in {{v} : v \in SheetInputs \cup ScenarioInputs}
    /\ frame = {}
    /\ views = {}
    /\ heap = [objs |-> <<>>, returned |-> {}]

\* load_single_region_sync, from the rows of the worksheet to the frame
LoadRows ==
    /\ frame = {}
    /\ \E vals \in values : frame' = {load_rows(vals)}
    /\ UNCHANGED <<schedVars, statusVars, colVars, trackerVars, typeVars, rateVars, values, views, heap>>

\* the handlers compute their views of the frame at hand
Aggregate ==
    /\ frame # {}
    /\ views = {}
    /\ heap = [objs |-> <<>>, returned |-> {}]
    /\ \E df \in frame, q \in Queries : views' \in {{v} : v \in Views(df, q)}
    /\ UNCHANGED <<schedVars, statusVars, colVars, trackerVars, typeVars, rateVars, values, frame, heap>>

NextPipeline == LoadRows \/ Aggregate

SpecPipeline == InitPipeline /\ [][NextPipeline]_vars

\* ---------------------------------------------------------- aggregation
\* a frame at hand, nothing else going on
InitAgg ==
    /\ InitIdle /\ InitNoStatus /\ InitNoColumns /\ InitNoTracker /\ InitNoType /\ InitNoRate
    /\ values = {}
    /\ frame \in {{df} : df \in FrameInputs}
    /\ views = {}
    /\ heap = [objs |-> <<>>, returned |-> {}]

\* the frame with its rows i and j in each other's place
Swap(df, i, j) ==
    [df EXCEPT !.rows = [n \in 1..Len(df.rows) |->
                            IF n = i THEN df.rows[j] ELSE IF n = j THEN df.rows[i] ELSE df.rows[n]]]

\* the frame with row i in two rows of the same keys, of qty a and the rest
Split(df, i, a) ==
    [df EXCEPT !.rows = SubSeq(df.rows, 1, i - 1)
                        \o <<[df.rows[i] EXCEPT !.qty = a],
                             [df.rows[i] EXCEPT !.qty = df.rows[i].qty - a]>>
                        \o SubSeq(df.rows, i + 1, Len(df.rows))]

\* the same records come in another order, and the views are computed anew
Reorder ==
    /\ views # {}
    /\ \E df \in frame, v \in views :
         \E i, j \in 1..Len(df.rows) :
            /\ i < j
            /\ frame' = {Swap(df, i, j)}
            /\ views' \in {{w} : w \in Views(Swap(df, i, j), v.query)}
    /\ UNCHANGED <<schedVars, statusVars, colVars, trackerVars, typeVars, rateVars, values, heap>>

\* a record comes as two records of the same keys, and the views are
\* computed anew
SplitRecord ==
    /\ views # {}
    /\ \E df \in frame, v \in views :
         /\ Len(df.rows) <= MaxRows
         /\ \E i \in 1..Len(df.rows) :
              \E a \in 1..(df.rows[i].qty - 1) :
                 /\ frame' = {Split(df, i, a)}
                 /\ views' \in {{w} : w \in Views(Split(df, i, a), v.query)}
    /\ UNCHANGED <<schedVars, statusVars, colVars, trackerVars, typeVars, rateVars, values, heap>>

NextAgg == Aggregate \/ Reorder \/ SplitRecord

SpecAgg == InitAgg /\ [][NextAgg]_vars

\* ------------------------------------------------------- district detail
W_Andijon == <<1072, 1085, 1076, 1080, 1078, 1086, 1085>>  \* андижон
W_Bektemir == <<1041, 1077, 1082, 1090, 1077, 1084, 1080, 1088>>  \* Бектемир

\* the records considered: rows the row pipeline gives, most of them of one
\* type and one region; no name holds a character that esc changes
DetailPool ==
    { [region_name |-> RegionNames[1], city_district |-> W_Centre,
       type_normalized |-> W_Excavator, status_normalized |-> NonOperational,
       qty |-> 2, has_tracker |-> FALSE],
      [region_name |-> RegionNames[1], city_district |-> W_Andijon,
       type_normalized |-> W_Excavator, status_normalized |-> NonOperational,
       qty |-> 2, has_tracker |-> FALSE],
      [region_name |-> RegionNames[1], city_district |-> W_Bektemir,
       type_normalized |-> W_Excavator, status_normalized |-> NeedsRepair,
       qty |-> 1, has_tracker |-> FALSE],
      [region_name |-> RegionNames[1], city_district |-> W_Centre,
       type_normalized |-> W_Excavator, status_normalized |-> NeedsRepair,
       qty |-> 1, has_tracker |-> TRUE],
      [region_name |-> RegionNames[1], city_district |-> W_Andijon,
       type_normalized |-> W_Excavator, status_normalized |-> Operational,
       qty |-> 3, has_tracker |-> FALSE],
      [region_name |-> RegionNames[1], city_district |-> W_Bektemir,
       type_normalized |-> W_Excavator, status_normalized |-> Unknown,
       qty |-> 1, has_tracker |-> FALSE],
      [region_name |-> RegionNames[2], city_district |-> W_Centre,
       type_normalized |-> W_Excavator, status_normalized |-> NonOperational,
       qty |-> 1, has_tracker |-> FALSE],
      [region_name |-> RegionNames[1], city_district |-> W_Bektemir,
       type_normalized |-> W_Trailer, status_normalized |-> NonOperational,
       qty |-> 2, has_tracker |-> FALSE] }

DetailFrames ==
    {NoFrame} \cup {[columns |-> KEEP, rows |-> r] : r \in SeqsUpTo(DetailPool, MaxRows)}

\* a frame at hand, nothing else going on
InitDetail ==
    /\ InitIdle /\ InitNoStatus /\ InitNoColumns /\ InitNoTracker /\ InitNoType /\ InitNoRate
    /\ values = {}
    /\ frame \in {{df} : df \in DetailFrames}
    /\ views = {}
    /\ heap = [objs |-> <<>>, returned |-> {}]

\* the handler of a type and a region: city_status_distribution =
\* get_detailed_city_status(df_all, tech_type, region), then
\* fmt_detailed_city_status(city_status_distribution) if it is not empty
DetailView ==
    /\ frame # {}
    /\ views = {}
    /\ \E df \in frame, q \in Queries :
         views' = {[query |-> q,
                    city_status |-> get_detailed_city_status(df, q.tech_type, q.region),
                    city_lines |-> fmt_detailed_city_status(
                                      get_detailed_city_status(df, q.tech_type, q.region),
                                      CityKeys(df, q.tech_type, q.region))]}
    /\ UNCHANGED <<schedVars, statusVars, colVars, trackerVars, typeVars, rateVars, values, frame, heap>>

NextDetail == DetailView

SpecDetail == InitDetail /\ [][NextDetail]_vars

\* ---------------------------------------------------------- frame copies
\* Here a frame is known by its object: the df of a CACHE entry and the obj
\* handed to a caller are places in heap.objs, which holds the rows of each
\* object.

\* the keys the callers ask for: the whole table and one region
CopyKeys == {ALL, 1}

\* the rows a load gives
LoadedRows == {EmptyDf, Rows(1, 1)}

\* the rows a caller leaves in a frame it was handed
MutatedRows == {EmptyDf, Rows(1, 1), Rows(1, 1) \o Rows(1, 2)}

\* a copy that is the object copied
SameObject(obj, new) == obj

\* DataFrame.copy() of the object obj: the object new
DfCopy(obj, new) == new

\* a cache filled and about to expire, nothing else going on
InitCopy ==
    /\ InitCommon
    /\ REGION_SHEETS = {1}
    /\ todo = [k \in Keys |-> 0]
    /\ env = [instants |-> {CACHE_TTL}, clears |-> 0]
    /\ InitNoStatus /\ InitNoColumns /\ InitNoTracker /\ InitNoType /\ InitNoRate /\ InitNoFrame
    /\ heap = [objs |-> <<>>, returned |-> {}]

\* get_df_async, cache hit: return CACHE[key][0].copy()
CopyHit(key) ==
    /\ Len(heap.objs) < MaxObjects
    /\ Fresh(key, FALSE)
    /\ heap' = [objs |-> Append(heap.objs, heap.objs[CACHE[key][1].df]),
                returned |-> heap.returned \cup
                    {[key |-> key, path |-> "hit",
                      obj |-> DfCopy(CACHE[key][1].df, Len(heap.objs) + 1)]}]
    /\ UNCHANGED <<schedVars, statusVars, colVars, trackerVars, typeVars, rateVars, values, frame, views>>

\* get_df_async, cache miss: the load gives the frame df;
\* CACHE[key] = (df.copy(), now + CACHE_TTL); return df
CopyMiss(key, force, rows) ==
    /\ Len(heap.objs) + 2 <= MaxObjects
    /\ ~Fresh(key, force)
    /\ CACHE' = [CACHE EXCEPT ![key] =
                    <<[df |-> DfCopy(Len(heap.objs) + 1, Len(heap.objs) + 2),
                       exp |-> now + CACHE_TTL]>>]
    /\ heap' = [objs |-> heap.objs \o <<rows, rows>>,
                returned |-> heap.returned \cup
                    {[key |-> key, path |-> "miss", obj |-> Len(heap.objs) + 1]}]
    /\ UNCHANGED <<now, REGION_SHEETS, LAST_API_CALL, sem, call, task, lastUp,
                   clears, todo, env, statusVars, colVars, trackerVars, typeVars, rateVars, values, frame, views>>

\* get_df_async, an exception inside the try block: return
\* CACHE[key][0].copy() if key in CACHE, else a new frame with no row
CopyError(key, force) ==
    /\ Len(heap.objs) < MaxObjects
    /\ ~Fresh(key, force)
    /\ heap' = [objs |-> Append(heap.objs,
                                IF InCache(key) THEN heap.objs[CACHE[key][1].df] ELSE EmptyDf),
                returned |-> heap.returned \cup
                    {[key |-> key, path |-> "error",
                      obj |-> IF InCache(key)
                              THEN DfCopy(CACHE[key][1].df, Len(heap.objs) + 1)
                              ELSE Len(heap.objs) + 1]}]
    /\ UNCHANGED <<schedVars, statusVars, colVars, trackerVars, typeVars, rateVars, values, frame, views>>

\* a caller changes the rows of a frame it was handed
Mutate(obj, rows) ==
    /\ \E e \in heap.returned : e.obj = obj
    /\ rows # heap.objs[obj]
    /\ heap' = [heap EXCEPT !.objs[obj] = rows]
    /\ UNCHANGED <<schedVars, statusVars, colVars, trackerVars, typeVars, rateVars, values, frame, views>>

NextCopy ==
    \/ \E key \in CopyKeys : CopyHit(key)
    \/ \E key \in CopyKeys, force \in BOOLEAN, rows \in LoadedRows : CopyMiss(key, force, rows)
    \/ \E key \in CopyKeys, force \in BOOLEAN : CopyError(key, force)
    \/ \E obj \in 1..MaxObjects, rows \in MutatedRows : Mutate(obj, rows)
    \/ \E t \in env.instants : Tick(t)

SpecCopy == InitCopy /\ [][NextCopy]_vars

\* ---------------------------------------------------------- by-type views
\* the rows considered: type names the mapping knows, names it does not
\* know, and a name that begins with U+0149
ByTypeRowPool ==
    { \* 'экскаватор' | 'ишлайди' | '' | 3 | 'мавжуд'
      [type |-> StrCell(<<1101, 1082, 1089, 1082, 1072, 1074, 1072, 1090, 1086, 1088>>),
       status |-> StrCell(<<1080, 1096, 1083, 1072, 1081, 1076, 1080>>),
       district |-> StrCell(<<>>),
       qty |-> IntCell(3),
       tracker |-> StrCell(<<1084, 1072, 1074, 1078, 1091, 1076>>)],
      \* 'ГАЗель' | 'ремонт' | 'Марказ' | 2 | ''
      [type |-> StrCell(<<1043, 1040, 1047, 1077, 1083, 1100>>),
       status |-> StrCell(<<1088, 1077, 1084, 1086, 1085, 1090>>),
       district |-> StrCell(<<1052, 1072, 1088, 1082, 1072, 1079>>),
       qty |-> IntCell(2),
       tracker |-> StrCell(<<>>)],
      \* ' prizep' | 'remont' | '' | 2 | ''
      [type |-> StrCell(<<32, 112, 114, 105, 122, 101, 112>>),
       status |-> StrCell(<<114, 101, 109, 111, 110, 116>>),
       district |-> StrCell(<<>>),
       qty |-> IntCell(2),
       tracker |-> StrCell(<<>>)],
      \* 'SAK' | 'ishlaydi' | '' | 1 | 1
      [type |-> StrCell(<<83, 65, 75>>),
       status |-> StrCell(<<105, 115, 104, 108, 97, 121, 100, 105>>),
       district |-> StrCell(<<>>),
       qty |-> IntCell(1),
       tracker |-> IntCell(1)],
      \* U+0149 ' trok' | 'ishlaydi' | '' | 1 | ''
      [type |-> StrCell(<<329, 32, 116, 114, 111, 107>>),
       status |-> StrCell(<<105, 115, 104, 108, 97, 121, 100, 105>>),
       district |-> StrCell(<<>>),
       qty |-> IntCell(1),
       tracker |-> StrCell(<<>>)] }

\* a worksheet read for a region, its rows taken from ByTypeRowPool
InitByType ==
    /\ InitIdle /\ InitNoStatus /\ InitNoColumns /\ InitNoTracker /\ InitNoType /\ InitNoRate
    /\ values \in {{Sheet(l, r)} : l \in Layouts, r \in SeqsUpTo(ByTypeRowPool, MaxRows)}
    /\ frame = {}
    /\ views = {}
    /\ heap = [objs |-> <<>>, returned |-> {}]

\* ask_type lists the types of all_types_summary; router_short_cb, for the
\* type of the button pressed, shows count_type_per_region
CountType ==
    /\ frame # {}
    /\ views = {}
    /\ \E df \in frame :
         \E all_types \in all_types_summary(df) :
           \E i \in 1..Len(all_types) :
             \E per_region \in count_type_per_region(df, all_types[i].key) :
                views' = {[tech_type |-> all_types[i].key,
                           listed |-> all_types[i].qty,
                           all_types |-> all_types,
                           per_region |-> per_region]}
    /\ UNCHANGED <<schedVars, statusVars, colVars, trackerVars, typeVars, rateVars,
                   values, frame, heap>>

NextByType == LoadRows \/ CountType

SpecByType == InitByType /\ [][NextByType]_vars

\* ------------------------------------------------------------ rate limit
\* Instants of time.monotonic() are counted in halves of a second.

\* RateLimitMiddleware(limit=5, per=1.0)
RATE_LIMIT == 5
RATE_PER == 2

\* the users who send events; an event with no from_user
UserIds == {1, 2}
NoUser == 0

\* an instant that is dropped as soon as it is per old
ExpiredAtPer(t_now, t) == t_now - t >= RATE_PER

\* now - timestamps[0] > self.per
Expired(t_now, t) == t_now - t > RATE_PER

RECURSIVE Evict(_, _)
\* while timestamps and now - timestamps[0] > self.per: timestamps.pop(0)
Evict(timestamps, t_now) ==
    IF timestamps # <<>> /\ Expired(t_now, timestamps[1])
    THEN Evict(Tail(timestamps), t_now)
    ELSE timestamps

\* the middleware as main creates it, no event seen
InitRate ==
    /\ InitIdle /\ InitNoStatus /\ InitNoColumns /\ InitNoTracker /\ InitNoType /\ InitNoPipe
    /\ users = [u \in UserIds |-> <<>>]
    /\ monotonic = 0
    /\ handled = [n |-> 0,
                  passed |-> [u \in UserIds \cup {NoUser} |-> <<>>],
                  dropped |-> [u \in UserIds \cup {NoUser} |-> <<>>],
                  last |-> <<>>]

\* the event of from_user at this instant, passed on to the handler or not
Seen(from_user, pass) ==
    [n |-> handled.n + 1,
     passed |-> IF pass THEN [handled.passed EXCEPT ![from_user] = Append(@, monotonic)]
                ELSE handled.passed,
     dropped |-> IF pass THEN handled.dropped
                 ELSE [handled.dropped EXCEPT ![from_user] = Append(@, monotonic)],
     last |-> <<[user |-> from_user, at |-> monotonic, passed |-> pass]>>]

\* RateLimitMiddleware.__call__ for an event of from_user
MiddlewareCall(from_user) ==
    /\ handled.n < MaxEvents
    /\ IF from_user = NoUser
       THEN /\ users' = users
            /\ handled' = Seen(from_user, TRUE)
       ELSE LET timestamps == Evict(users[from_user], monotonic) IN
            IF Len(timestamps) >= RATE_LIMIT
            THEN /\ users' = [users EXCEPT ![from_user] = timestamps]
                 /\ handled' = Seen(from_user, FALSE)
            ELSE /\ users' = [users EXCEPT ![from_user] = Append(timestamps, monotonic)]
                 /\ handled' = Seen(from_user, TRUE)
    /\ UNCHANGED <<schedVars, statusVars, colVars, trackerVars, pipeVars, typeVars, monotonic>>

\* time.monotonic() goes on
MonotonicTick ==
    /\ monotonic < MaxTicks
    /\ monotonic' = monotonic + 1
    /\ UNCHANGED <<schedVars, statusVars, colVars, trackerVars, pipeVars, typeVars,
                   users, handled>>

NextRate ==
    \/ \E from_user \in UserIds \cup {NoUser} : MiddlewareCall(from_user)
    \/ MonotonicTick

SpecRate == InitRate /\ [][NextRate]_vars

\* ------------------------------------------------------------------ claims
Tasks == Calls \X Regions

Started(c) == call[c].pc # "idle"

\* C1: two unforced calls for one key within one TTL window, no clear between
\* them, trigger one upstream fetch in total, also when they overlap
C1_OneFetchPerWindow ==
    \A c1 \in Calls, c2 \in Calls :
        (/\ c1 < c2 /\ Started(c1) /\ Started(c2)
         /\ call[c1].key = call[c2].key
         /\ ~call[c1].force /\ ~call[c2].force
         /\ call[c2].start - call[c1].start < CACHE_TTL
         /\ call[c1].ep = call[c2].ep)
        => ~(call[c1].fetched /\ call[c2].fetched)

\* the upstream fetch of a finished task failed
Failed(tk) == tk.pc = "done" /\ tk.tries >= 1 /\ tk.df = EmptyDf

\* C2: when the upstream fetch for a region fails while the cache holds an
\* entry for it, the call returns that entry's frame and the cache keeps it
C2_StaleOnFailure ==
    [][\A c \in Calls :
        LET k == call[c].key IN
        (/\ call[c].pc = "await" /\ call'[c].pc = "done"
         /\ k # ALL
         /\ Failed(task'[c][k])
         /\ InCache(k))
        => (/\ call'[c].result = CACHE[k][1].df
            /\ CACHE'[k] # <<>>
            /\ CACHE'[k][1].df = CACHE[k][1].df)]_vars

\* the worker thread of x is let go towards upstream: started after the
\* gate, or through with its cooldown
LetGo(x) ==
    LET a == task[x[1]][x[2]]
        b == task'[x[1]][x[2]] IN
    \/ a.pc # "thread" /\ b.pc = "thread" /\ x[2] \in REGION_SHEETS
    \/ a.tries = 1 /\ b.tries = 2

\* C3: successive upstream calls, the retry included, are let go at least
\* API_DELAY apart
C3_Paced == [][(\E x \in Tasks : LetGo(x)) => now - lastUp >= API_DELAY]_vars

Inside(tk) == tk.pc \in {"sleep", "thread", "cooldown"}

InsideCount == Cardinality({x \in Tasks : Inside(task[x[1]][x[2]])})

\* C4: at most PARALLEL_LIMIT tasks are inside the section guarded by the
\* semaphore, whichever call started them
C4_AtMostLimitInside == InsideCount <= PARALLEL_LIMIT

\* tasks of a fan-out and a one-region request hold all the permits while
\* another task waits for one
C4_Witness ==
    /\ InsideCount = PARALLEL_LIMIT
    /\ sem = 0
    /\ \E x \in Tasks, y \in Tasks, z \in Tasks :
        /\ call[x[1]].key = ALL /\ call[y[1]].key # ALL
        /\ Inside(task[x[1]][x[2]]) /\ Inside(task[y[1]][y[2]])
        /\ task[z[1]][z[2]].pc = "waitSem"

\* C5: a task makes at most two upstream attempts, the second only after a
\* 429 and a cooldown of COOLDOWN seconds; any other failure ends the task
C5_RetryOnce ==
    [][\A x \in Tasks :
        LET a == task[x[1]][x[2]]
            b == task'[x[1]][x[2]] IN
        /\ b.tries \in {a.tries, a.tries + 1}
        /\ b.tries <= 2
        /\ (a.tries = 0 /\ b.tries = 1) =>
              /\ b.o1 \in Outcomes
              /\ (b.o1 = "429") <=> (b.pc = "cooldown")
              /\ b.pc = "cooldown" => b.wake = now + COOLDOWN
              /\ b.o1 # "429" => b.pc = "done"
        /\ (a.tries = 1 /\ b.tries = 2) =>
              /\ a.pc = "cooldown" /\ a.o1 = "429" /\ now >= a.wake
              /\ b.pc = "done"
        /\ a.pc = "done" => b = a]_vars

\* a task whose retry failed too, next to one that failed without a 429
C5_Witness ==
    \E x \in Tasks, y \in Tasks :
        /\ task[x[1]][x[2]].pc = "done" /\ task[x[1]][x[2]].tries = 2
        /\ task[x[1]][x[2]].df = EmptyDf
        /\ task[y[1]][y[2]].pc = "done" /\ task[y[1]][y[2]].tries = 1
        /\ task[y[1]][y[2]].o1 = "err"

RowsOf(df, r) == {i \in 1..Len(df) : df[i].region_name = r}

\* C6: the frame of an "ALL" refresh holds exactly the rows of the sources
\* that did not fail, whichever subset failed, and every task has finished
C6_FailuresIsolated ==
    \A c \in Calls :
        (call[c].pc = "done" /\ call[c].key = ALL /\ call[c].fetched) =>
            /\ \A r \in REGION_SHEETS :
                /\ task[c][r].pc = "done"
                /\ Failed(task[c][r]) => RowsOf(call[c].result, r) = {}
                /\ ~Failed(task[c][r]) =>
                      /\ Cardinality(RowsOf(call[c].result, r)) = 1
                      /\ \A i \in RowsOf(call[c].result, r) :
                            <<call[c].result[i]>> = task[c][r].df
            /\ Len(call[c].result) =
                  Cardinality({r \in REGION_SHEETS : ~Failed(task[c][r])})
            /\ \A i \in 1..Len(call[c].result), j \in 1..Len(call[c].result) :
                  i < j => call[c].result[i].region_name < call[c].result[j].region_name

\* an "ALL" refresh done with one source failed after its retry and another
\* one delivering rows
C6_Witness ==
    \E c \in Calls, r \in Regions, q \in Regions :
        /\ call[c].pc = "done" /\ call[c].key = ALL
        /\ Failed(task[c][r]) /\ task[c][r].tries = 2
        /\ task[c][q].pc = "done" /\ task[c][q].df # EmptyDf
        /\ call[c].result # EmptyDf

\* C7: the first call for a key after a cache clear performs a fresh fetch,
\* also when a fetch started before the clear completes after it
C7_FreshAfterClear ==
    \A c \in Calls :
        (/\ Started(c) /\ call[c].ep >= 1
         /\ \A d \in Calls : (d < c /\ call[d].key = call[c].key) => call[d].ep < call[c].ep)
        => call[c].fetched

\* C8: a 429 followed by a successful retry gives the caller the retried
\* rows and stores them under the region with expiry call start + TTL
C8_RetrySuccessCached ==
    [][\A c \in Calls :
        LET k == call[c].key IN
        (/\ call[c].pc = "await" /\ call'[c].pc = "done"
         /\ k # ALL
         /\ task[c][k].pc = "cooldown" /\ task[c][k].o1 = "429"
         /\ task'[c][k].df # EmptyDf)
        => (/\ task'[c][k].tries = 2
            /\ call'[c].result = Rows(k, 2)
            /\ CACHE'[k] = <<[df |-> Rows(k, 2), exp |-> call[c].start + CACHE_TTL]>>)]_vars

\* a region call answered by its retry, after the cooldown, and cached
C8_Witness ==
    \E c \in Calls :
        LET k == call[c].key IN
        /\ call[c].pc = "done" /\ k # ALL
        /\ task[c][k].tries = 2 /\ task[c][k].o1 = "429"
        /\ call[c].result = Rows(k, 2)
        /\ now >= call[c].start + COOLDOWN
        /\ CACHE[k] = <<[df |-> Rows(k, 2), exp |-> call[c].start + CACHE_TTL]>>

\* C9: a cell whose text holds both "ispraven" (serviceable) and "ne" (not)
\* is classified NonOperational
C9_NegationOverride ==
    (/\ status_normalized # <<>>
     /\ Contains(StatusKey(status_cell), W_ispraven)
     /\ Contains(StatusKey(status_cell), W_ne))
    => status_normalized = NonOperational

\* C10: normalize_status returns one of the four labels, maps each label to
\* itself, and so gives the same label when applied to its own result
C10_Idempotent ==
    status_normalized # <<>> =>
        /\ status_normalized \in StatusLabels
        /\ normalize_status(status_normalized) = status_normalized
        /\ status_cell \in StatusLabels => status_normalized = status_cell

\* a label other than the default one, classified as itself
C10_Witness ==
    /\ status_cell \in StatusLabels \ {Unknown}
    /\ status_normalized = status_cell
\* the aliases, by place, that some header equals after normalization
ExactAliasIdx ==
    {a \in 1..Len(alias_list) :
        \E i \in 1..Len(df_columns) :
            normalize_header(df_columns[i]) = normalize_header(alias_list[a])}

\* the headers, by place, whose normalized form holds an alias
SubstrHeaders ==
    {i \in 1..Len(df_columns) :
        \E a \in 1..Len(alias_list) :
            /\ normalize_header(alias_list[a]) # <<>>
            /\ Contains(normalize_header(df_columns[i]), normalize_header(alias_list[a]))}

IsHeader(f) == \E i \in 1..Len(df_columns) : df_columns[i] = f

\* C11: when some header equals an alias after normalization, find_column
\* returns a header that equals the earliest such alias of the list,
\* whatever other headers hold an alias or a heuristic token
C11_ExactMatchWins ==
    (found # {} /\ ExactAliasIdx # {}) =>
        \A f \in found :
            /\ IsHeader(f)
            /\ normalize_header(f) = normalize_header(alias_list[Min(ExactAliasIdx)])

\* an exact match returned although a shorter header, met first, holds an
\* alias as a substring
C11_Witness ==
    /\ found # {} /\ ExactAliasIdx # {}
    /\ \E i \in SubstrHeaders, j \in 1..Len(df_columns) :
        /\ i < j
        /\ found = {df_columns[j]}
        /\ \A a \in 1..Len(alias_list) :
              normalize_header(df_columns[i]) # normalize_header(alias_list[a])
        /\ Len(normalize_header(df_columns[i])) < Len(normalize_header(df_columns[j]))

\* C12: with no exact match and two or more headers holding an alias,
\* find_column returns one of them of the least normalized length
C12_ShortestSubstring ==
    (found # {} /\ ExactAliasIdx = {} /\ Cardinality(SubstrHeaders) >= 2) =>
        \A f \in found :
            /\ \E i \in SubstrHeaders : df_columns[i] = f
            /\ \A i \in SubstrHeaders :
                  Len(normalize_header(f)) <= Len(normalize_header(df_columns[i]))

\* the shorter of two headers holding an alias returned, the longer one
\* standing first
C12_Witness ==
    /\ ExactAliasIdx = {}
    /\ \E i \in SubstrHeaders, j \in SubstrHeaders :
        /\ i < j
        /\ Len(normalize_header(df_columns[i])) > Len(normalize_header(df_columns[j]))
        /\ found = {df_columns[j]}
\* the number float() reads in the tracker cell, the decimal comma allowed
TrackerNumber ==
    LET s == Strip(tracker_cell) IN Float([i \in 1..Len(s) |-> CommaToDot(s[i])])

\* the tracker cell is a text holding a phrase for "not present"
SaysAbsent ==
    /\ tracker_cell # None
    /\ TrackerNumber \notin {"pos", "zero"}
    /\ \E w \in AbsentPhrases : Contains(LowerStr(tracker_cell), w)

\* C13: normalize_tracker_flag gives false for a cell that reads as the
\* number zero, true for one that reads as a positive number, and false for
\* a text holding "not present", although "present" is part of that phrase
\* and whether or not the text names the device
C13_TrackerFlag ==
    (has_tracker # {} /\ tracker_cell # None) =>
        /\ TrackerNumber = "zero" => has_tracker = {FALSE}
        /\ TrackerNumber = "pos" => has_tracker = {TRUE}
        /\ SaysAbsent => has_tracker = {FALSE}

\* "GPS not present", with a capital letter in it, read as false
C13_Witness ==
    /\ SaysAbsent
    /\ \E w \in TrackerWords : Contains(LowerStr(tracker_cell), w)
    /\ \E w \in PresentPhrases : Contains(LowerStr(tracker_cell), w)
    /\ tracker_cell # LowerStr(tracker_cell)
    /\ has_tracker = {FALSE}

\* the result of the category split and of its status blocks, as claimed
\* for the scenario
ScenarioOutcome(df, v) ==
    /\ Len(df.rows) = 5
    /\ v.region_categories = Returns(<<3, 2, 5>>)
    /\ v.status_auto = <<[key |-> Operational, qty |-> 3]>>
    /\ v.status_equip = <<[key |-> NeedsRepair, qty |-> 2]>>
    /\ \A i \in 1..Len(df.rows) :
          ~is_equipment_type(df.rows[i].type_normalized) =>
              df.rows[i].city_district = RegionR

\* C15: for region "R", three rows of type "ekskavator", status "ishlaydi"
\* and a blank district and two rows of type "prizep" and status "remont",
\* with no quantity column, give five records; the category split counts 3
\* vehicles, all Operational, and 2 pieces of equipment, all NeedsRepair,
\* and the vehicle records have city_district "R"
C15_Scenario ==
    \A vals \in values, df \in frame, v \in views :
        vals = ScenarioLatin => ScenarioOutcome(df, v)

\* the scenario with its words in Cyrillic letters has the outcome claimed
C15_CyrillicScenario ==
    \A vals \in values, df \in frame, v \in views :
        vals = ScenarioCyrillic => ScenarioOutcome(df, v)

\* the cell of the quantity column rc resolves, in row i of the rows kept
QtyCellOf(rc, kept, i) == kept[i][ColIndex(rc.columns, rc.qty_col)]

MatchesAlias(header, aliases) ==
    \E a \in 1..Len(aliases) :
        /\ normalize_header(aliases[a]) # <<>>
        /\ Contains(normalize_header(header), normalize_header(aliases[a]))

\* some header of the worksheet matches an alias of the list
HasColumnFor(vals, aliases) ==
    \E j \in 1..Len(vals.headers) : MatchesAlias(vals.headers[j], aliases)

\* C17: a worksheet none of whose headers matches a type alias gives an
\* empty frame; a worksheet with a type column and no header matching a
\* status alias gives one record for each row whose type classifies, each
\* of status Unknown
C17_UnresolvedColumns ==
    \A vals \in values, df \in frame :
        /\ ~HasColumnFor(vals, TYPE_ALIASES) => df.rows = <<>>
        /\ (HasColumnFor(vals, TYPE_ALIASES) /\ ~HasColumnFor(vals, STATUS_ALIASES)) =>
              /\ Len(df.rows) = Len(KeptRows(Resolved(vals), vals.rows))
              /\ \A i \in 1..Len(df.rows) : df.rows[i].status_normalized = Unknown

\* C18: for a worksheet with a resolved type column, the frame has exactly
\* one record, in order, for each row whose type cell classifies to a label
\* that is not empty, whatever the other cells hold; each record has that
\* label for its type and one of the four states for its status
C18_OneRecordPerTypedRow ==
    \A vals \in values, df \in frame :
        LET rc == Resolved(vals)
            kept == KeptRows(rc, vals.rows)
        IN  Truthy(rc.type_col) =>
                /\ Len(df.rows) = Len(kept)
                /\ \A i \in 1..Len(df.rows) :
                      /\ df.rows[i].type_normalized = RowType(rc, kept[i])
                      /\ df.rows[i].type_normalized \notin {None, <<>>}
                      /\ df.rows[i].status_normalized \in StatusLabels

\* the groups of a ranked frame with their sums, the order left aside
Groups(ranked) == {<<ranked[i].key, ranked[i].qty>> : i \in 1..Len(ranked)}

\* the sum of every group of every group-and-sum view
Totals(v) ==
    [all_types |-> Groups(v.all_types),
     statuses |-> Groups(v.statuses),
     per_region |-> Groups(v.per_region),
     trackers |-> Groups(v.trackers),
     region_counts |-> v.region_counts]

\* C14: the sums all_types_summary, get_status_distribution_any,
\* count_type_per_region, count_trackers_by_region and get_region_counts
\* give for their groups stay the same when the records come in another
\* order, and when a record of qty N comes as two records of the same keys
\* and of qty A and B, A + B = N, A >= 1, B >= 1
C14_TotalsInvariant ==
    [][(views # {} /\ views' # {}) =>
          \A v \in views, w \in views' : Totals(v) = Totals(w)]_vars

\* two records of the same keys, the halves of a record that was split,
\* stand apart, a record of another type between them, and the views count
\* them in one group
C14_Witness ==
    \E df \in frame, v \in views :
        /\ Len(df.rows) = MaxRows + 1
        /\ \E i, j \in 1..Len(df.rows) :
              /\ i + 1 < j
              /\ [df.rows[i] EXCEPT !.qty = 0] = [df.rows[j] EXCEPT !.qty = 0]
              /\ df.rows[i + 1].type_normalized # df.rows[i].type_normalized
              /\ \E g \in Groups(v.all_types) :
                    /\ g[1] = df.rows[i].type_normalized
                    /\ g[2] >= df.rows[i].qty + df.rows[j].qty

\* C20: on an empty frame, the frame of no column included, every
\* aggregation function returns an empty or all-zero result and raises
\* nothing
C20_EmptyGivesEmpty ==
    \A df \in frame, v \in views :
        Empty(df) =>
            /\ v.region_categories = Returns(<<0, 0, 0>>)
            /\ v.district_categories = Returns(<<0, 0, 0>>)
            /\ v.republic_categories = Returns(<<0, 0, 0>>)
            /\ v.all_types = NoRows
            /\ v.statuses = NoRows
            /\ v.per_region = NoRows
            /\ v.trackers = NoRows
            /\ v.city_status = <<>>
            /\ \A r \in Regions : v.region_counts[r] = 0

\* C19: no frame handed to a caller by get_df_async is the object CACHE
\* holds, whether it comes from a hit, from a miss or from the error
\* branch; so whatever the callers do to the frames they were handed, the
\* rows of the frame CACHE holds for a key stay as they were stored
C19_ReturnedNotCached ==
    [][\A key \in Keys :
          /\ CACHE'[key] # <<>> =>
                \A e \in heap'.returned : e.obj # CACHE'[key][1].df
          /\ (CACHE[key] # <<>> /\ CACHE'[key] = CACHE[key]) =>
                heap'.objs[CACHE[key][1].df] = heap.objs[CACHE[key][1].df]]_vars

\* for one key, a frame handed out on each of the three paths has been
\* changed by its caller, and differs from the frame CACHE holds
C19_Witness ==
    \E key \in Keys :
        /\ InCache(key)
        /\ \A path \in {"hit", "miss", "error"} :
              \E e \in heap.returned :
                  /\ e.key = key
                  /\ e.path = path
                  /\ heap.objs[e.obj] # heap.objs[CACHE[key][1].df]

\* the token set of the heuristic that belongs to the role of an alias list;
\* the quantity and tracker roles have none
OwnTokens(aliases) ==
    IF aliases = STATUS_ALIASES THEN StatusTokenSet
    ELSE IF aliases = REGION_ALIASES THEN RegionTokenSet
    ELSE IF aliases = TYPE_ALIASES THEN TypeTokenSet
    ELSE {}

\* C21: when no header matches an alias of the role exactly or as a
\* substring, and no header contains a token of the role's own token set,
\* find_column returns None; so the quantity and the tracker role are
\* unresolved on headers that name only type, status and district
C21_OwnTokensOnly ==
    \A f \in found :
        LET nm == norm_map(df_columns)
            best == SubstrScan(nm, alias_list, Len(alias_list) * Len(nm))
        IN  (/\ alias_list \in {STATUS_ALIASES, TYPE_ALIASES, REGION_ALIASES,
                                QTY_ALIASES, TRACKER_ALIASES}
             /\ ExactAliases(nm, alias_list) = {}
             /\ (best = None \/ best = <<>>)
             /\ \A i \in 1..Len(nm) :
                    \A tok \in OwnTokens(alias_list) : ~Contains(nm[i].nc, tok))
            => f = None

\* the green marks among the tokens of the first icon test
GreenMarks == << <<9989>>, <<128994>> >>

\* C22: the icon tests come before every lexicon: a cell with a green mark
\* is Operational; a cell with a red or stop mark and no token of the first
\* test is NonOperational; a cell with a wrench, yellow or warning mark and
\* no token of the first two tests is NeedsRepair, whatever phrases the rest
\* of the cell holds
C22_IconsFirst ==
    status_normalized # <<>> =>
        /\ ContainsAny(status_cell, GreenMarks) => status_normalized = Operational
        /\ (/\ ContainsAny(status_cell, IconNonOperational)
            /\ ~ContainsAny(status_cell, IconOperational))
           => status_normalized = NonOperational
        /\ (/\ ContainsAny(status_cell, IconNeedsRepair)
            /\ ~ContainsAny(status_cell, IconOperational)
            /\ ~ContainsAny(status_cell, IconNonOperational))
           => status_normalized = NeedsRepair

\* C23: a cell that is one phrase of the "does not work" lexicon, or
\* неисправен, is NonOperational: no earlier test takes it
C23_NonOperationalAlone ==
    (/\ status_normalized # <<>>
     /\ status_cell \in Range(NonOperationalWords) \cup {W_ne \o W_ispraven})
    => status_normalized = NonOperational

\* a list in the order of the summed quantity, the greatest first, groups of
\* equal quantity in the order of their names without regard to case
RankedByQtyThenName(list) ==
    \A i \in 1..(Len(list) - 1) :
        \/ list[i].qty > list[i + 1].qty
        \/ /\ list[i].qty = list[i + 1].qty
           /\ ~TextLess(LowerStr(list[i + 1].key), LowerStr(list[i].key))

\* C24: every ranked list a view shows stands in the order of the summed
\* quantity, the greatest first, and groups of equal quantity stand in the
\* order of their names without regard to case
C24_RankedOrder ==
    \A v \in views :
        /\ RankedByQtyThenName(v.per_region)
        /\ RankedByQtyThenName(v.all_types)
        /\ RankedByQtyThenName(v.statuses)
        /\ RankedByQtyThenName(v.status_auto)
        /\ RankedByQtyThenName(v.status_equip)
        /\ RankedByQtyThenName(v.trackers)
        /\ RankedByQtyThenName(v.districts)

\* the summed quantity of the rows of a district and a status
DistrictSum(rows, d, st) ==
    SumQty(SelectSeq(rows, LAMBDA r : r.city_district = d /\ r.status_normalized = st))

\* C25: for a type and a region, get_detailed_city_status has an entry for
\* each district with matching records and no other, the entry holds the
\* summed quantity of each status whose sum is not zero; the lines of
\* fmt_detailed_city_status are these districts, ordered by the
\* NonOperational count descending, then the NeedsRepair count descending,
\* then the name ascending without regard to case
C25_DistrictDetail ==
    \A v \in views, df \in frame :
        LET m == IF df = NoFrame THEN <<>>
                 ELSE SelectSeq(df.rows,
                        LAMBDA r : /\ r.region_name = v.query.region
                                   /\ r.type_normalized = normalize_tech_type(v.query.tech_type))
            D == {m[i].city_district : i \in 1..Len(m)}
            L == v.city_lines
        IN  /\ DOMAIN v.city_status = D
            /\ \A d \in D :
                  /\ DOMAIN v.city_status[d] = {st \in StatusLabels : DistrictSum(m, d, st) > 0}
                  /\ \A st \in DOMAIN v.city_status[d] :
                        v.city_status[d][st] = DistrictSum(m, d, st)
            /\ Len(L) = Cardinality(D)
            /\ {L[i].city : i \in 1..Len(L)} = D
            /\ \A i \in 1..(Len(L) - 1) :
                  LET r1 == DistrictSum(m, L[i].city, NonOperational)
                      r2 == DistrictSum(m, L[i + 1].city, NonOperational)
                      y1 == DistrictSum(m, L[i].city, NeedsRepair)
                      y2 == DistrictSum(m, L[i + 1].city, NeedsRepair)
                  IN  \/ r1 > r2
                      \/ r1 = r2 /\ y1 > y2
                      \/ /\ r1 = r2 /\ y1 = y2
                         /\ ~TextLess(LowerStr(L[i + 1].city), LowerStr(L[i].city))

\* two districts are listed; the first has the greater NonOperational count
\* and the smaller NeedsRepair count
C25_Witness ==
    \E v \in views :
        /\ Len(v.city_lines) = 2
        /\ Get(v.city_status[v.city_lines[1].city], NonOperational)
              > Get(v.city_status[v.city_lines[2].city], NonOperational)
        /\ Get(v.city_status[v.city_lines[1].city], NeedsRepair)
              < Get(v.city_status[v.city_lines[2].city], NeedsRepair)

\* C26: no key of type_mapping is hidden by another key that is part of
\* it: the text of a key is given the label of that key
C26_KeyGivesOwnLabel ==
    \A f \in type_found :
        \A i \in 1..Len(type_mapping) :
            type_cell = type_mapping[i].key => f = type_mapping[i].label

\* C27: a forced call fetches and, when it returns, has overwritten the
\* entry of its key, also when an unexpired entry was there; an unforced
\* call returns the cached frame without a fetch when the clock is strictly
\* before the expiry of the entry, and fetches otherwise; the entry a
\* fetching call stores expires CACHE_TTL after the start of the call
C27_RefreshPolicy ==
    [][\A c \in Calls :
        LET k == call'[c].key IN
        /\ (call[c].pc = "idle" /\ call'[c].pc # "idle") =>
              /\ call'[c].start = now
              /\ IF ~call'[c].force /\ CACHE[k] # <<>> /\ now < CACHE[k][1].exp
                 THEN /\ ~call'[c].fetched
                      /\ call'[c].pc = "done"
                      /\ call'[c].result = CACHE[k][1].df
                      /\ CACHE' = CACHE
                 ELSE call'[c].fetched
        /\ (call[c].pc # "done" /\ call'[c].pc = "done" /\ call'[c].fetched) =>
              CACHE'[k] = <<[df |-> call'[c].result,
                             exp |-> call'[c].start + CACHE_TTL]>>]_vars

\* the entry of a key expires at this very instant, and an unforced call
\* for the key that started at this instant is fetching
C27_Witness ==
    \E c, d \in Calls :
        /\ d < c /\ call[d].key = call[c].key /\ call[d].ep = call[c].ep
        /\ call[d].pc = "done" /\ call[d].fetched
        /\ CACHE[call[c].key] = <<[df |-> call[d].result,
                                   exp |-> call[d].start + CACHE_TTL]>>
        /\ call[c].pc = "await" /\ ~call[c].force /\ call[c].fetched
        /\ call[c].start = now
        /\ now = CACHE[call[c].key][1].exp

\* C28: whatever the interleaving of the calls for a key, a fetch that
\* started earlier never replaces the entry of a fetch that started after
\* it: the expiry stored for a key never decreases
C28_ExpiryNeverDecreases ==
    [][\A k \in Keys :
        (CACHE[k] # <<>> /\ CACHE'[k] # <<>>) =>
            CACHE'[k][1].exp >= CACHE[k][1].exp]_vars

\* the number of the instants of s from lo to hi
CountWithin(s, lo, hi) == Cardinality({i \in 1..Len(s) : lo <= s[i] /\ s[i] <= hi})

\* C29: of the events of one user, at most RATE_LIMIT within any stretch
\* of RATE_PER are passed to the handler; an event is passed exactly when
\* fewer than RATE_LIMIT events of the same user were passed within the
\* last RATE_PER, so dropped events and the events of other users do not
\* count; a dropped event leaves no instant recorded, no event changes what
\* is recorded for another user, and an event with no from_user is passed
C29_RateLimit ==
    [][/\ \A u \in UserIds, t \in 0..MaxTicks :
              CountWithin(handled'.passed[u], t, t + RATE_PER) <= RATE_LIMIT
       /\ handled'.n # handled.n =>
            LET e == handled'.last[1] IN
            /\ e.user = NoUser => e.passed /\ users' = users
            /\ e.user # NoUser =>
                 /\ e.passed <=> CountWithin(handled.passed[e.user],
                                             e.at - RATE_PER, e.at) < RATE_LIMIT
                 /\ \A v \in UserIds \ {e.user} : users'[v] = users[v]
                 /\ ~e.passed =>
                      \E k \in 0..Len(users[e.user]) :
                          users'[e.user] = SubSeq(users[e.user], k + 1, Len(users[e.user]))]_vars

\* a user had RATE_LIMIT events passed, then one dropped exactly RATE_PER
\* after the first of them, then one passed again
C29_Witness ==
    \E u \in UserIds :
        /\ Len(handled.passed[u]) = RATE_LIMIT + 1
        /\ Len(handled.dropped[u]) = 1
        /\ handled.dropped[u][1] = handled.passed[u][1] + RATE_PER
        /\ handled.passed[u][RATE_LIMIT + 1] > handled.dropped[u][1]

RECURSIVE ListQty(_)
\* the sum of column qty of a ranked list
ListQty(list) == IF list = <<>> THEN 0 ELSE Head(list).qty + ListQty(Tail(list))

\* C30: for a type that all_types_summary lists for a frame of the row
\* pipeline, the quantities count_type_per_region gives for that type sum to
\* the quantity listed, and normalize_tech_type returns the type unchanged
C30_ByTypeViewsAgree ==
    \A v \in views :
        /\ ListQty(v.per_region) = v.listed
        /\ normalize_tech_type(v.tech_type) = v.tech_type
====
